---- MODULE Spec2Model ----
(***************************************************************************)
(* A model of the ring buffer of MEIHAOEVE/ring_buff: the lock-free core   *)
(* (ring_buffer_lockfree.c), the critical-section and mutex wrappers       *)
(* (ring_buffer_disable_irq.c, ring_buffer_mutex.c) and the standalone     *)
(* core (ring_buffer.c).                                                   *)
(*                                                                         *)
(* Spec      runs one sequence of operations, without concurrency, either  *)
(*           on three buffers of one size at once, one per strategy table, *)
(*           or on one buffer through the standalone core.                 *)
(* SpecSPSC  runs one producer and one consumer on one lock-free buffer,   *)
(*           interleaved at every load and store of head, tail and a slot. *)
(* SpecMutex runs two tasks, each writing and reading, on one              *)
(*           mutex-guarded buffer, interleaved in the same way.            *)
(***************************************************************************)
EXTENDS Integers, Sequences, FiniteSets, TLC

(* ------------------------------ bounds -------------------------------- *)

\* Largest buffer size (rb->size) explored; sizes run from RING_BUFFER_MIN_SIZE.
MaxSize == 3

\* Largest len passed to write_multi / read_multi, and the length of the
\* caller's destination array.
MaxLen == 2

\* No operation is issued once a record of accepted or delivered bytes is
\* longer than this (the records of a correct buffer never are: see Cancel).
MaxHist == 4

(* -------------------------- program constants ------------------------- *)

RING_BUFFER_MIN_SIZE == 2

\* uint16_t arithmetic: a value stored in a uint16_t is reduced modulo 2^16.
UINT16_RANGE == 65536

U16(x) == x % UINT16_RANGE

\* The byte values the callers write.
Bytes == {0, 1}

\* A null pointer.
NULL == [null |-> TRUE]

\* A pointer to an array of bytes (a source or a destination): data.bytes is the
\* array, a sequence whose C index i is the element i + 1.
Ptr(bytes) == [bytes |-> bytes]

\* The caller's storage region, as the value of rb->buffer.
STORAGE == [region |-> "storage"]

\* The handle MUTEX_CREATE() returns, as the value of rb->lock.
MUTEX_HANDLE == [handle |-> "mutex"]

Min(a, b) == IF a < b THEN a ELSE b

\* memcpy(&mem[at], &src[from], n): mem is indexed from 0 as in C; src is a
\* sequence, whose C index i is the element i + 1.
memcpy_to(mem, at, src, from, n) ==
    [i \in DOMAIN mem |->
        IF at <= i /\ i < at + n THEN src[(i - at) + from + 1] ELSE mem[i]]

\* memcpy(&dst[to], &mem[at], n)
memcpy_from(dst, to, mem, at, n) ==
    [i \in DOMAIN dst |->
        IF to + 1 <= i /\ i < to + 1 + n THEN mem[(i - (to + 1)) + at] ELSE dst[i]]

(* ------------------- ring_buffer_lockfree.c --------------------------- *)

lockfree_available_internal(rb) ==
    LET head == rb.head
        tail == rb.tail
    IN  IF head >= tail THEN U16(head - tail)
        ELSE U16(rb.size - tail + head)

\* A variant that forgets the slot kept unused.
lockfree_free_space_internal_offbyone(rb) ==
    U16(rb.size - lockfree_available_internal(rb))

lockfree_free_space_internal(rb) ==
    U16(rb.size - 1 - lockfree_available_internal(rb))

\* A variant that advances head without storing the byte.
lockfree_write_nostore(rb, data) ==
    IF rb = NULL THEN [rb |-> rb, ret |-> FALSE]
    ELSE LET next_head == U16((rb.head + 1) % rb.size)
         IN  IF next_head = rb.tail THEN [rb |-> rb, ret |-> FALSE]
             ELSE [rb |-> [rb EXCEPT !.head = next_head], ret |-> TRUE]

\* A variant without the full check.
lockfree_write_overrun(rb, data) ==
    IF rb = NULL THEN [rb |-> rb, ret |-> FALSE]
    ELSE LET next_head == U16((rb.head + 1) % rb.size)
         IN  [rb |-> [rb EXCEPT !.mem[rb.head] = data, !.head = next_head],
              ret |-> TRUE]

lockfree_write(rb, data) ==
    IF rb = NULL THEN [rb |-> rb, ret |-> FALSE]
    ELSE LET next_head == U16((rb.head + 1) % rb.size)
         IN  IF next_head = rb.tail THEN [rb |-> rb, ret |-> FALSE]
             ELSE [rb |-> [rb EXCEPT !.mem[rb.head] = data, !.head = next_head],
                   ret |-> TRUE]

\* A variant without the empty check.
lockfree_read_underrun(rb, data) ==
    IF rb = NULL \/ data = NULL THEN [rb |-> rb, ret |-> FALSE, data |-> data]
    ELSE [rb |-> [rb EXCEPT !.tail = U16((rb.tail + 1) % rb.size)],
          ret |-> TRUE,
          data |-> [data EXCEPT !.bytes[1] = rb.mem[rb.tail]]]

\* A variant that returns the byte without releasing its slot.
lockfree_read_noadvance(rb, data) ==
    IF rb = NULL \/ data = NULL THEN [rb |-> rb, ret |-> FALSE, data |-> data]
    ELSE IF rb.tail = rb.head THEN [rb |-> rb, ret |-> FALSE, data |-> data]
    ELSE [rb |-> rb,
          ret |-> TRUE,
          data |-> [data EXCEPT !.bytes[1] = rb.mem[rb.tail]]]

\* A variant that zeroes the slot it has read.
lockfree_read_wipe(rb, data) ==
    IF rb = NULL \/ data = NULL THEN [rb |-> rb, ret |-> FALSE, data |-> data]
    ELSE IF rb.tail = rb.head THEN [rb |-> rb, ret |-> FALSE, data |-> data]
    ELSE [rb |-> [rb EXCEPT !.mem = [rb.mem EXCEPT ![rb.tail] = 0],
                            !.tail = U16((rb.tail + 1) % rb.size)],
          ret |-> TRUE,
          data |-> [bytes |-> [data.bytes EXCEPT ![1] = rb.mem[rb.tail]]]]

lockfree_read(rb, data) ==
    IF rb = NULL \/ data = NULL THEN [rb |-> rb, ret |-> FALSE, data |-> data]
    ELSE IF rb.tail = rb.head THEN [rb |-> rb, ret |-> FALSE, data |-> data]
    ELSE [rb |-> [rb EXCEPT !.tail = U16((rb.tail + 1) % rb.size)],
          ret |-> TRUE,
          data |-> [data EXCEPT !.bytes[1] = rb.mem[rb.tail]]]

\* A variant that does not clamp the request to the free space.
lockfree_write_multi_noclamp(rb, data, len) ==
    IF rb = NULL \/ data = NULL \/ len = 0 THEN [rb |-> rb, ret |-> 0]
    ELSE LET to_write == len
             head == rb.head
             size == rb.size
         IN  IF head + to_write <= size
             THEN [rb |-> [rb EXCEPT
                             !.mem = memcpy_to(rb.mem, head, data.bytes, 0, to_write),
                             !.head = U16((head + to_write) % size)],
                   ret |-> to_write]
             ELSE LET first_chunk == U16(size - head)
                      second_chunk == U16(to_write - first_chunk)
                  IN  [rb |-> [rb EXCEPT
                                 !.mem = memcpy_to(
                                            memcpy_to(rb.mem, head, data.bytes, 0, first_chunk),
                                            0, data.bytes, first_chunk, second_chunk),
                                 !.head = U16(second_chunk % size)],
                       ret |-> to_write]

\* A variant that copies the first chunk only when the transfer wraps.
lockfree_write_multi_nowrap(rb, data, len) ==
    IF rb = NULL \/ data = NULL \/ len = 0 THEN [rb |-> rb, ret |-> 0]
    ELSE LET free == lockfree_free_space_internal(rb)
             to_write == IF len > free THEN free ELSE len
             head == rb.head
             size == rb.size
         IN  IF to_write = 0 THEN [rb |-> rb, ret |-> 0]
             ELSE LET first_chunk == Min(to_write, size - head)
                  IN  [rb |-> [rb EXCEPT
                                 !.mem = memcpy_to(rb.mem, head, data.bytes, 0, first_chunk),
                                 !.head = U16((head + to_write) % size)],
                       ret |-> to_write]

\* A variant that leaves out the modulo of a transfer that does not wrap.
lockfree_write_multi_nomod(rb, data, len) ==
    IF rb = NULL \/ data = NULL \/ len = 0 THEN [rb |-> rb, ret |-> 0]
    ELSE LET free == lockfree_free_space_internal(rb)
             to_write == IF len > free THEN free ELSE len
             head == rb.head
             size == rb.size
         IN  IF to_write = 0 THEN [rb |-> rb, ret |-> 0]
             ELSE IF head + to_write <= size
             THEN [rb |-> [rb EXCEPT
                             !.mem = memcpy_to(rb.mem, head, data.bytes, 0, to_write),
                             !.head = U16(head + to_write)],
                   ret |-> to_write]
             ELSE LET first_chunk == U16(size - head)
                      second_chunk == U16(to_write - first_chunk)
                  IN  [rb |-> [rb EXCEPT
                                 !.mem = memcpy_to(
                                            memcpy_to(rb.mem, head, data.bytes, 0, first_chunk),
                                            0, data.bytes, first_chunk, second_chunk),
                                 !.head = second_chunk],
                       ret |-> to_write]

lockfree_write_multi(rb, data, len) ==
    IF rb = NULL \/ data = NULL \/ len = 0 THEN [rb |-> rb, ret |-> 0]
    ELSE LET free == lockfree_free_space_internal(rb)
             to_write == IF len > free THEN free ELSE len
             head == rb.head
             size == rb.size
         IN  IF to_write = 0 THEN [rb |-> rb, ret |-> 0]
             ELSE IF head + to_write <= size
             THEN [rb |-> [rb EXCEPT
                             !.mem = memcpy_to(rb.mem, head, data.bytes, 0, to_write),
                             !.head = U16((head + to_write) % size)],
                   ret |-> to_write]
             ELSE LET first_chunk == U16(size - head)
                      second_chunk == U16(to_write - first_chunk)
                  IN  [rb |-> [rb EXCEPT
                                 !.mem = memcpy_to(
                                            memcpy_to(rb.mem, head, data.bytes, 0, first_chunk),
                                            0, data.bytes, first_chunk, second_chunk),
                                 !.head = second_chunk],
                       ret |-> to_write]

\* A variant that reads past the end of storage instead of wrapping.
lockfree_read_multi_nowrap(rb, data, len) ==
    IF rb = NULL \/ data = NULL \/ len = 0 THEN [rb |-> rb, ret |-> 0, data |-> data]
    ELSE LET available == lockfree_available_internal(rb)
             to_read == IF len > available THEN available ELSE len
             tail == rb.tail
             size == rb.size
         IN  IF to_read = 0 THEN [rb |-> rb, ret |-> 0, data |-> data]
             ELSE [rb |-> [rb EXCEPT !.tail = U16((tail + to_read) % size)],
                   ret |-> to_read,
                   data |-> [bytes |-> [i \in DOMAIN data.bytes |->
                               IF i <= to_read
                               THEN rb.mem[Min(tail + i - 1, size - 1)]
                               ELSE data.bytes[i]]]]

\* The slot indices memcpy addresses in storage when it copies n bytes to
\* or from &rb->buffer[at].
memcpy_slots(at, n) == at..(at + n - 1)

\* The storage slots the memcpy calls of lockfree_write_multi address.
lockfree_write_multi_slots(rb, len) ==
    IF rb = NULL \/ len = 0 THEN {}
    ELSE LET free == lockfree_free_space_internal(rb)
             to_write == IF len > free THEN free ELSE len
             head == rb.head
             size == rb.size
         IN  IF to_write = 0 THEN {}
             ELSE IF head + to_write <= size
             THEN memcpy_slots(head, to_write)
             ELSE LET first_chunk == U16(size - head)
                      second_chunk == U16(to_write - first_chunk)
                  IN  memcpy_slots(head, first_chunk) \cup memcpy_slots(0, second_chunk)

\* The storage slots the memcpy calls of lockfree_read_multi address.
lockfree_read_multi_slots(rb, len) ==
    IF rb = NULL \/ len = 0 THEN {}
    ELSE LET available == lockfree_available_internal(rb)
             to_read == IF len > available THEN available ELSE len
             tail == rb.tail
             size == rb.size
         IN  IF to_read = 0 THEN {}
             ELSE IF tail + to_read <= size
             THEN memcpy_slots(tail, to_read)
             ELSE LET first_chunk == U16(size - tail)
                      second_chunk == U16(to_read - first_chunk)
                  IN  memcpy_slots(tail, first_chunk) \cup memcpy_slots(0, second_chunk)

\* A variant that copies the second chunk of a wrapping read over the first.
lockfree_read_multi_overlay(rb, data, len) ==
    IF rb = NULL \/ data = NULL \/ len = 0 THEN [rb |-> rb, ret |-> 0, data |-> data]
    ELSE LET available == lockfree_available_internal(rb)
             to_read == IF len > available THEN available ELSE len
             tail == rb.tail
             size == rb.size
         IN  IF to_read = 0 THEN [rb |-> rb, ret |-> 0, data |-> data]
             ELSE IF tail + to_read <= size
             THEN [rb |-> [rb EXCEPT !.tail = U16((tail + to_read) % size)],
                   ret |-> to_read,
                   data |-> [bytes |-> memcpy_from(data.bytes, 0, rb.mem, tail, to_read)]]
             ELSE LET first_chunk == U16(size - tail)
                      second_chunk == U16(to_read - first_chunk)
                  IN  [rb |-> [rb EXCEPT !.tail = second_chunk],
                       ret |-> to_read,
                       data |-> [bytes |-> memcpy_from(
                                   memcpy_from(data.bytes, 0, rb.mem, tail, first_chunk),
                                   0, rb.mem, 0, second_chunk)]]

\* A variant that copies the bytes out and leaves tail where it was.
lockfree_read_multi_peek(rb, data, len) ==
    IF rb = NULL \/ data = NULL \/ len = 0 THEN [rb |-> rb, ret |-> 0, data |-> data]
    ELSE LET available == lockfree_available_internal(rb)
             to_read == IF len > available THEN available ELSE len
             tail == rb.tail
             size == rb.size
         IN  IF to_read = 0 THEN [rb |-> rb, ret |-> 0, data |-> data]
             ELSE IF tail + to_read <= size
             THEN [rb |-> rb,
                   ret |-> to_read,
                   data |-> [bytes |-> memcpy_from(data.bytes, 0, rb.mem, tail, to_read)]]
             ELSE LET first_chunk == U16(size - tail)
                      second_chunk == U16(to_read - first_chunk)
                  IN  [rb |-> rb,
                       ret |-> to_read,
                       data |-> [bytes |-> memcpy_from(
                                   memcpy_from(data.bytes, 0, rb.mem, tail, first_chunk),
                                   first_chunk, rb.mem, 0, second_chunk)]]

lockfree_read_multi(rb, data, len) ==
    IF rb = NULL \/ data = NULL \/ len = 0 THEN [rb |-> rb, ret |-> 0, data |-> data]
    ELSE LET available == lockfree_available_internal(rb)
             to_read == IF len > available THEN available ELSE len
             tail == rb.tail
             size == rb.size
         IN  IF to_read = 0 THEN [rb |-> rb, ret |-> 0, data |-> data]
             ELSE IF tail + to_read <= size
             THEN [rb |-> [rb EXCEPT !.tail = U16((tail + to_read) % size)],
                   ret |-> to_read,
                   data |-> [bytes |-> memcpy_from(data.bytes, 0, rb.mem, tail, to_read)]]
             ELSE LET first_chunk == U16(size - tail)
                      second_chunk == U16(to_read - first_chunk)
                  IN  [rb |-> [rb EXCEPT !.tail = second_chunk],
                       ret |-> to_read,
                       data |-> [bytes |-> memcpy_from(
                                   memcpy_from(data.bytes, 0, rb.mem, tail, first_chunk),
                                   first_chunk, rb.mem, 0, second_chunk)]]

lockfree_available(rb) ==
    IF rb = NULL THEN 0 ELSE lockfree_available_internal(rb)

lockfree_free_space(rb) ==
    IF rb = NULL THEN 0 ELSE lockfree_free_space_internal(rb)

lockfree_is_empty(rb) ==
    IF rb = NULL THEN TRUE ELSE rb.head = rb.tail

lockfree_is_full(rb) ==
    IF rb = NULL THEN FALSE ELSE U16((rb.head + 1) % rb.size) = rb.tail

\* A variant that discards one byte only.
lockfree_clear_one(rb) ==
    IF rb = NULL THEN rb
    ELSE IF rb.tail = rb.head THEN rb
    ELSE [rb EXCEPT !.tail = U16((rb.tail + 1) % rb.size)]

lockfree_clear(rb) ==
    IF rb = NULL THEN rb ELSE [rb EXCEPT !.tail = rb.head]

\* Whether the n bytes from slot from on lie inside the caller's storage
\* region (rb.mem has one entry per byte of the region).
InRegion(rb, from, n) ==
    n = 0 \/ (from \in DOMAIN rb.mem /\ (from + n - 1) \in DOMAIN rb.mem)

\* The operation with undefined behaviour that the lock-free function o
\* executes on these arguments, or "none": a modulo by rb->size = 0, an access
\* through rb->buffer = NULL, or a copy that leaves the storage region.  The
\* functions test rb, data and len only, never rb->buffer or rb->size.
lockfree_undefined(o, rb, data, len) ==
    CASE o = "write" ->
           IF rb = NULL THEN "none"
           ELSE IF rb.size = 0 THEN "modulo_by_zero"
           ELSE IF U16((rb.head + 1) % rb.size) = rb.tail THEN "none"
           ELSE IF rb.buffer = NULL THEN "null_storage"
           ELSE IF ~InRegion(rb, rb.head, 1) THEN "out_of_region"
           ELSE "none"
      [] o = "read" ->
           IF rb = NULL \/ data = NULL THEN "none"
           ELSE IF rb.tail = rb.head THEN "none"
           ELSE IF rb.buffer = NULL THEN "null_storage"
           ELSE IF ~InRegion(rb, rb.tail, 1) THEN "out_of_region"
           ELSE IF rb.size = 0 THEN "modulo_by_zero"
           ELSE "none"
      [] o = "write_multi" ->
           IF rb = NULL \/ data = NULL \/ len = 0 THEN "none"
           ELSE LET free == lockfree_free_space_internal(rb)
                    to_write == IF len > free THEN free ELSE len
                    head == rb.head
                    size == rb.size
                IN  IF to_write = 0 THEN "none"
                    ELSE IF rb.buffer = NULL THEN "null_storage"
                    ELSE IF head + to_write <= size
                    THEN IF InRegion(rb, head, to_write) THEN "none"
                         ELSE "out_of_region"
                    ELSE LET first_chunk == U16(size - head)
                             second_chunk == U16(to_write - first_chunk)
                         IN  IF /\ InRegion(rb, head, first_chunk)
                                /\ InRegion(rb, 0, second_chunk)
                                /\ first_chunk + second_chunk <= len
                             THEN "none"
                             ELSE "out_of_region"
      [] o = "read_multi" ->
           IF rb = NULL \/ data = NULL \/ len = 0 THEN "none"
           ELSE LET available == lockfree_available_internal(rb)
                    to_read == IF len > available THEN available ELSE len
                    tail == rb.tail
                    size == rb.size
                IN  IF to_read = 0 THEN "none"
                    ELSE IF rb.buffer = NULL THEN "null_storage"
                    ELSE IF tail + to_read <= size
                    THEN IF InRegion(rb, tail, to_read) THEN "none"
                         ELSE "out_of_region"
                    ELSE LET first_chunk == U16(size - tail)
                             second_chunk == U16(to_read - first_chunk)
                         IN  IF /\ InRegion(rb, tail, first_chunk)
                                /\ InRegion(rb, 0, second_chunk)
                                /\ first_chunk + second_chunk <= len
                             THEN "none"
                             ELSE "out_of_region"
      [] o = "is_full" ->
           IF rb = NULL THEN "none"
           ELSE IF rb.size = 0 THEN "modulo_by_zero"
           ELSE "none"
      [] o \in {"available", "free_space", "is_empty", "clear"} -> "none"

(* --------------------------- ring_buffer.c ---------------------------- *)

\* A variant that binds storage and size without resetting the indices.
ring_buffer_init_keep(rb, buffer, size) ==
    IF rb = NULL \/ buffer = NULL \/ size < RING_BUFFER_MIN_SIZE
    THEN [rb |-> rb, ret |-> FALSE]
    ELSE [rb |-> [rb EXCEPT !.buffer = buffer, !.size = size], ret |-> TRUE]

ring_buffer_init(rb, buffer, size) ==
    IF rb = NULL \/ buffer = NULL \/ size < RING_BUFFER_MIN_SIZE
    THEN [rb |-> rb, ret |-> FALSE]
    ELSE [rb |-> [rb EXCEPT !.buffer = buffer, !.size = size, !.head = 0, !.tail = 0],
          ret |-> TRUE]

ring_buffer_write(rb, data) ==
    IF rb = NULL THEN [rb |-> rb, ret |-> FALSE]
    ELSE IF rb.buffer = NULL \/ rb.size < RING_BUFFER_MIN_SIZE
    THEN [rb |-> rb, ret |-> FALSE]
    ELSE LET next_head == U16((rb.head + 1) % rb.size)
         IN  IF next_head = rb.tail THEN [rb |-> rb, ret |-> FALSE]
             ELSE [rb |-> [rb EXCEPT !.mem[rb.head] = data, !.head = next_head],
                   ret |-> TRUE]

ring_buffer_read(rb, data) ==
    IF rb = NULL \/ data = NULL THEN [rb |-> rb, ret |-> FALSE, data |-> data]
    ELSE IF rb.buffer = NULL \/ rb.size < RING_BUFFER_MIN_SIZE
    THEN [rb |-> rb, ret |-> FALSE, data |-> data]
    ELSE IF rb.head = rb.tail THEN [rb |-> rb, ret |-> FALSE, data |-> data]
    ELSE [rb |-> [rb EXCEPT !.tail = U16((rb.tail + 1) % rb.size)],
          ret |-> TRUE,
          data |-> [data EXCEPT !.bytes[1] = rb.mem[rb.tail]]]

ring_buffer_available(rb) ==
    IF rb = NULL THEN 0
    ELSE IF rb.size < RING_BUFFER_MIN_SIZE THEN 0
    ELSE LET head == rb.head
             tail == rb.tail
         IN  IF head >= tail THEN U16(head - tail)
             ELSE U16(rb.size - tail + head)

ring_buffer_free_space(rb) ==
    IF rb = NULL THEN 0
    ELSE IF rb.size < RING_BUFFER_MIN_SIZE THEN 0
    ELSE LET avail == ring_buffer_available(rb)
         IN  U16(rb.size - avail - 1)

ring_buffer_write_multi(rb, data, len) ==
    IF rb = NULL \/ data = NULL THEN [rb |-> rb, ret |-> 0]
    ELSE IF rb.buffer = NULL \/ rb.size < RING_BUFFER_MIN_SIZE
    THEN [rb |-> rb, ret |-> 0]
    ELSE IF len = 0 THEN [rb |-> rb, ret |-> 0]
    ELSE LET free == ring_buffer_free_space(rb)
             to_write == IF len > free THEN free ELSE len
             head == rb.head
             tail == rb.tail
             size == rb.size
         IN  IF free = 0 THEN [rb |-> rb, ret |-> 0]
             ELSE IF head >= tail
             THEN LET part1 == U16(size - head)
                  IN  IF to_write <= part1
                      THEN [rb |-> [rb EXCEPT
                                      !.mem = memcpy_to(rb.mem, head, data.bytes, 0, to_write),
                                      !.head = U16((head + to_write) % size)],
                            ret |-> to_write]
                      ELSE [rb |-> [rb EXCEPT
                                      !.mem = memcpy_to(
                                                 memcpy_to(rb.mem, head, data.bytes, 0, part1),
                                                 0, data.bytes, part1, to_write - part1),
                                      !.head = U16(to_write - part1)],
                            ret |-> to_write]
             ELSE [rb |-> [rb EXCEPT
                             !.mem = memcpy_to(rb.mem, head, data.bytes, 0, to_write),
                             !.head = U16(head + to_write)],
                   ret |-> to_write]

ring_buffer_read_multi(rb, data, len) ==
    IF rb = NULL \/ data = NULL THEN [rb |-> rb, ret |-> 0, data |-> data]
    ELSE IF rb.buffer = NULL \/ rb.size < RING_BUFFER_MIN_SIZE
    THEN [rb |-> rb, ret |-> 0, data |-> data]
    ELSE IF len = 0 THEN [rb |-> rb, ret |-> 0, data |-> data]
    ELSE LET avail == ring_buffer_available(rb)
             to_read == IF len > avail THEN avail ELSE len
             tail == rb.tail
             head == rb.head
             size == rb.size
         IN  IF avail = 0 THEN [rb |-> rb, ret |-> 0, data |-> data]
             ELSE IF tail < head
             THEN [rb |-> [rb EXCEPT !.tail = U16(tail + to_read)],
                   ret |-> to_read,
                   data |-> [bytes |-> memcpy_from(data.bytes, 0, rb.mem, tail, to_read)]]
             ELSE LET part1 == U16(size - tail)
                  IN  IF to_read <= part1
                      THEN [rb |-> [rb EXCEPT !.tail = U16((tail + to_read) % size)],
                            ret |-> to_read,
                            data |-> [bytes |-> memcpy_from(data.bytes, 0, rb.mem, tail, to_read)]]
                      ELSE [rb |-> [rb EXCEPT !.tail = U16(to_read - part1)],
                            ret |-> to_read,
                            data |-> [bytes |-> memcpy_from(
                                        memcpy_from(data.bytes, 0, rb.mem, tail, part1),
                                        part1, rb.mem, 0, to_read - part1)]]

ring_buffer_is_empty(rb) ==
    IF rb = NULL THEN TRUE ELSE rb.head = rb.tail

ring_buffer_is_full(rb) ==
    IF rb = NULL THEN FALSE
    ELSE IF rb.size < RING_BUFFER_MIN_SIZE THEN FALSE
    ELSE LET next_head == U16((rb.head + 1) % rb.size)
         IN  next_head = rb.tail

ring_buffer_clear(rb) ==
    IF rb = NULL THEN rb ELSE [rb EXCEPT !.head = 0, !.tail = 0]

\* The same for the functions of ring_buffer.c, whose accesses to the storage
\* and whose modulo stand behind the test of rb->buffer and rb->size: what is
\* left is a copy through an index outside the storage region.
ring_buffer_undefined(o, rb, data, len) ==
    CASE o = "write" ->
           IF rb = NULL THEN "none"
           ELSE IF rb.buffer = NULL \/ rb.size < RING_BUFFER_MIN_SIZE THEN "none"
           ELSE IF U16((rb.head + 1) % rb.size) = rb.tail THEN "none"
           ELSE IF ~InRegion(rb, rb.head, 1) THEN "out_of_region"
           ELSE "none"
      [] o = "read" ->
           IF rb = NULL \/ data = NULL THEN "none"
           ELSE IF rb.buffer = NULL \/ rb.size < RING_BUFFER_MIN_SIZE THEN "none"
           ELSE IF rb.head = rb.tail THEN "none"
           ELSE IF ~InRegion(rb, rb.tail, 1) THEN "out_of_region"
           ELSE "none"
      [] o = "write_multi" ->
           IF rb = NULL \/ data = NULL THEN "none"
           ELSE IF rb.buffer = NULL \/ rb.size < RING_BUFFER_MIN_SIZE THEN "none"
           ELSE IF len = 0 THEN "none"
           ELSE LET free == ring_buffer_free_space(rb)
                    to_write == IF len > free THEN free ELSE len
                    part1 == U16(rb.size - rb.head)
                IN  IF free = 0 THEN "none"
                    ELSE IF rb.head >= rb.tail /\ to_write > part1
                    THEN IF InRegion(rb, rb.head, part1)
                            /\ InRegion(rb, 0, to_write - part1)
                         THEN "none" ELSE "out_of_region"
                    ELSE IF InRegion(rb, rb.head, to_write) THEN "none"
                         ELSE "out_of_region"
      [] o = "read_multi" ->
           IF rb = NULL \/ data = NULL THEN "none"
           ELSE IF rb.buffer = NULL \/ rb.size < RING_BUFFER_MIN_SIZE THEN "none"
           ELSE IF len = 0 THEN "none"
           ELSE LET avail == ring_buffer_available(rb)
                    to_read == IF len > avail THEN avail ELSE len
                    part1 == U16(rb.size - rb.tail)
                IN  IF avail = 0 THEN "none"
                    ELSE IF rb.tail >= rb.head /\ to_read > part1
                    THEN IF InRegion(rb, rb.tail, part1)
                            /\ InRegion(rb, 0, to_read - part1)
                         THEN "none" ELSE "out_of_region"
                    ELSE IF InRegion(rb, rb.tail, to_read) THEN "none"
                         ELSE "out_of_region"
      [] o \in {"available", "free_space", "is_empty", "is_full", "clear"} -> "none"

(* ---------------------- ring_buffer_disable_irq.c --------------------- *)

\* IRQ_SAVE(state): state = __get_PRIMASK(); __disable_irq().  primask is 1
\* while interrupt delivery is disabled.
IRQ_SAVE(primask) == [state |-> primask, primask |-> 1]

\* IRQ_RESTORE(state): __set_PRIMASK(state)
IRQ_RESTORE(state) == state

\* The branches of the #if that selects the two macros: Cortex-M with CMSIS,
\* and every other target but AVR.  The AVR branch, state = SREG; cli() and
\* SREG = state, is the Cortex-M branch with the I bit of SREG, inverted, in
\* the place of PRIMASK, and has no value of its own here.
Platforms == {"cortex_m", "default"}

\* The #else branch, compiled for every target that is neither: IRQ_SAVE is
\*     state = 0;
\* and IRQ_RESTORE is (void)state: neither touches the interrupt mask.
IRQ_SAVE_default(primask) == [state |-> 0, primask |-> primask]

IRQ_RESTORE_default(state, primask) == primask

disable_irq_write(rb, data, primask) ==
    IF rb = NULL THEN [rb |-> rb, ret |-> FALSE, primask |-> primask]
    ELSE LET saved == IRQ_SAVE(primask)
             r == lockfree_write(rb, data)
         IN  [rb |-> r.rb, ret |-> r.ret, primask |-> IRQ_RESTORE(saved.state)]

disable_irq_read(rb, data, primask) ==
    IF rb = NULL \/ data = NULL
    THEN [rb |-> rb, ret |-> FALSE, data |-> data, primask |-> primask]
    ELSE LET saved == IRQ_SAVE(primask)
             r == lockfree_read(rb, data)
         IN  [rb |-> r.rb, ret |-> r.ret, data |-> r.data,
              primask |-> IRQ_RESTORE(saved.state)]

disable_irq_write_multi(rb, data, len, primask) ==
    IF rb = NULL \/ data = NULL \/ len = 0
    THEN [rb |-> rb, ret |-> 0, primask |-> primask]
    ELSE LET saved == IRQ_SAVE(primask)
             r == lockfree_write_multi(rb, data, len)
         IN  [rb |-> r.rb, ret |-> r.ret, primask |-> IRQ_RESTORE(saved.state)]

disable_irq_read_multi(rb, data, len, primask) ==
    IF rb = NULL \/ data = NULL \/ len = 0
    THEN [rb |-> rb, ret |-> 0, data |-> data, primask |-> primask]
    ELSE LET saved == IRQ_SAVE(primask)
             r == lockfree_read_multi(rb, data, len)
         IN  [rb |-> r.rb, ret |-> r.ret, data |-> r.data,
              primask |-> IRQ_RESTORE(saved.state)]

disable_irq_available(rb, primask) ==
    IF rb = NULL THEN [ret |-> 0, primask |-> primask]
    ELSE LET saved == IRQ_SAVE(primask)
         IN  [ret |-> lockfree_available(rb), primask |-> IRQ_RESTORE(saved.state)]

disable_irq_free_space(rb, primask) ==
    IF rb = NULL THEN [ret |-> 0, primask |-> primask]
    ELSE LET saved == IRQ_SAVE(primask)
         IN  [ret |-> lockfree_free_space(rb), primask |-> IRQ_RESTORE(saved.state)]

disable_irq_is_empty(rb, primask) ==
    IF rb = NULL THEN [ret |-> TRUE, primask |-> primask]
    ELSE LET saved == IRQ_SAVE(primask)
         IN  [ret |-> lockfree_is_empty(rb), primask |-> IRQ_RESTORE(saved.state)]

disable_irq_is_full(rb, primask) ==
    IF rb = NULL THEN [ret |-> FALSE, primask |-> primask]
    ELSE LET saved == IRQ_SAVE(primask)
         IN  [ret |-> lockfree_is_full(rb), primask |-> IRQ_RESTORE(saved.state)]

disable_irq_clear(rb, primask) ==
    IF rb = NULL THEN [rb |-> rb, primask |-> primask]
    ELSE LET saved == IRQ_SAVE(primask)
         IN  [rb |-> lockfree_clear(rb), primask |-> IRQ_RESTORE(saved.state)]

(* ------------------------- ring_buffer_mutex.c ------------------------ *)

\* The state of the RTOS mutex object: "unlocked", "locked" or "deleted".
\* MUTEX_LOCK(m) is xSemaphoreTake(m, portMAX_DELAY): it returns only once the
\* mutex is unlocked, and leaves it locked.
MUTEX_LOCK(mtx) == "locked"

\* MUTEX_UNLOCK(m): xSemaphoreGive(m)
MUTEX_UNLOCK(mtx) == "unlocked"

\* MUTEX_DELETE(m): vSemaphoreDelete(m)
MUTEX_DELETE(mtx) == "deleted"

\* Whether MUTEX_LOCK(m) would suspend the caller: a call that finds the mutex
\* locked does not return (blocked is TRUE and nothing else has happened).
MutexBusy(mtx) == mtx # "unlocked"

\* An initialisation that does not test what MUTEX_CREATE() returned.
ring_buffer_mutex_init_unchecked(rb, created) ==
    IF rb = NULL THEN [rb |-> rb, ret |-> FALSE]
    ELSE LET mutex == IF created THEN MUTEX_HANDLE ELSE NULL
         IN  [rb |-> [rb EXCEPT !.lock = mutex], ret |-> TRUE]

ring_buffer_mutex_init(rb, created) ==
    IF rb = NULL THEN [rb |-> rb, ret |-> FALSE]
    ELSE LET mutex == IF created THEN MUTEX_HANDLE ELSE NULL
         IN  IF mutex = NULL THEN [rb |-> rb, ret |-> FALSE]
             ELSE [rb |-> [rb EXCEPT !.lock = mutex], ret |-> TRUE]

\* A variant that forgets the handle without deleting the mutex.
ring_buffer_mutex_deinit_leak(rb, mtx) ==
    IF rb = NULL THEN [rb |-> rb, mtx |-> mtx]
    ELSE [rb |-> [rb EXCEPT !.lock = NULL], mtx |-> mtx]

ring_buffer_mutex_deinit(rb, mtx) ==
    IF rb = NULL THEN [rb |-> rb, mtx |-> mtx]
    ELSE IF rb.lock = NULL THEN [rb |-> rb, mtx |-> mtx]
    ELSE [rb |-> [rb EXCEPT !.lock = NULL], mtx |-> MUTEX_DELETE(mtx)]

\* Whether a call of ring_buffer_mutex_deinit reaches MUTEX_DELETE.
ring_buffer_mutex_deinit_deletes(rb) == ~(rb = NULL \/ rb.lock = NULL)

mutex_write(rb, data, mtx) ==
    IF rb = NULL THEN [rb |-> rb, ret |-> FALSE, mtx |-> mtx, blocked |-> FALSE]
    ELSE IF rb.lock = NULL
    THEN [rb |-> rb, ret |-> FALSE, mtx |-> mtx, blocked |-> FALSE]
    ELSE IF MutexBusy(mtx)
    THEN [rb |-> rb, ret |-> FALSE, mtx |-> mtx, blocked |-> TRUE]
    ELSE LET locked == MUTEX_LOCK(mtx)
             r == lockfree_write(rb, data)
         IN  [rb |-> r.rb, ret |-> r.ret, mtx |-> MUTEX_UNLOCK(locked),
              blocked |-> FALSE]

\* A read that does not test rb->lock before it takes the mutex.
mutex_read_nolock(rb, data, mtx) ==
    IF rb = NULL \/ data = NULL
    THEN [rb |-> rb, ret |-> FALSE, data |-> data, mtx |-> mtx, blocked |-> FALSE]
    ELSE IF MutexBusy(mtx)
    THEN [rb |-> rb, ret |-> FALSE, data |-> data, mtx |-> mtx, blocked |-> TRUE]
    ELSE LET locked == MUTEX_LOCK(mtx)
             r == lockfree_read(rb, data)
         IN  [rb |-> r.rb, ret |-> r.ret, data |-> r.data,
              mtx |-> MUTEX_UNLOCK(locked), blocked |-> FALSE]

mutex_read(rb, data, mtx) ==
    IF rb = NULL \/ data = NULL
    THEN [rb |-> rb, ret |-> FALSE, data |-> data, mtx |-> mtx, blocked |-> FALSE]
    ELSE IF rb.lock = NULL
    THEN [rb |-> rb, ret |-> FALSE, data |-> data, mtx |-> mtx, blocked |-> FALSE]
    ELSE IF MutexBusy(mtx)
    THEN [rb |-> rb, ret |-> FALSE, data |-> data, mtx |-> mtx, blocked |-> TRUE]
    ELSE LET locked == MUTEX_LOCK(mtx)
             r == lockfree_read(rb, data)
         IN  [rb |-> r.rb, ret |-> r.ret, data |-> r.data,
              mtx |-> MUTEX_UNLOCK(locked), blocked |-> FALSE]

mutex_write_multi(rb, data, len, mtx) ==
    IF rb = NULL \/ data = NULL \/ len = 0
    THEN [rb |-> rb, ret |-> 0, mtx |-> mtx, blocked |-> FALSE]
    ELSE IF rb.lock = NULL
    THEN [rb |-> rb, ret |-> 0, mtx |-> mtx, blocked |-> FALSE]
    ELSE IF MutexBusy(mtx)
    THEN [rb |-> rb, ret |-> 0, mtx |-> mtx, blocked |-> TRUE]
    ELSE LET locked == MUTEX_LOCK(mtx)
             r == lockfree_write_multi(rb, data, len)
         IN  [rb |-> r.rb, ret |-> r.ret, mtx |-> MUTEX_UNLOCK(locked),
              blocked |-> FALSE]

mutex_read_multi(rb, data, len, mtx) ==
    IF rb = NULL \/ data = NULL \/ len = 0
    THEN [rb |-> rb, ret |-> 0, data |-> data, mtx |-> mtx, blocked |-> FALSE]
    ELSE IF rb.lock = NULL
    THEN [rb |-> rb, ret |-> 0, data |-> data, mtx |-> mtx, blocked |-> FALSE]
    ELSE IF MutexBusy(mtx)
    THEN [rb |-> rb, ret |-> 0, data |-> data, mtx |-> mtx, blocked |-> TRUE]
    ELSE LET locked == MUTEX_LOCK(mtx)
             r == lockfree_read_multi(rb, data, len)
         IN  [rb |-> r.rb, ret |-> r.ret, data |-> r.data,
              mtx |-> MUTEX_UNLOCK(locked), blocked |-> FALSE]

mutex_available(rb, mtx) ==
    IF rb = NULL THEN [ret |-> 0, mtx |-> mtx, blocked |-> FALSE]
    ELSE IF rb.lock = NULL THEN [ret |-> 0, mtx |-> mtx, blocked |-> FALSE]
    ELSE IF MutexBusy(mtx) THEN [ret |-> 0, mtx |-> mtx, blocked |-> TRUE]
    ELSE LET locked == MUTEX_LOCK(mtx)
         IN  [ret |-> lockfree_available(rb), mtx |-> MUTEX_UNLOCK(locked),
              blocked |-> FALSE]

mutex_free_space(rb, mtx) ==
    IF rb = NULL THEN [ret |-> 0, mtx |-> mtx, blocked |-> FALSE]
    ELSE IF rb.lock = NULL THEN [ret |-> 0, mtx |-> mtx, blocked |-> FALSE]
    ELSE IF MutexBusy(mtx) THEN [ret |-> 0, mtx |-> mtx, blocked |-> TRUE]
    ELSE LET locked == MUTEX_LOCK(mtx)
         IN  [ret |-> lockfree_free_space(rb), mtx |-> MUTEX_UNLOCK(locked),
              blocked |-> FALSE]

mutex_is_empty(rb, mtx) ==
    IF rb = NULL THEN [ret |-> TRUE, mtx |-> mtx, blocked |-> FALSE]
    ELSE IF rb.lock = NULL THEN [ret |-> TRUE, mtx |-> mtx, blocked |-> FALSE]
    ELSE IF MutexBusy(mtx) THEN [ret |-> TRUE, mtx |-> mtx, blocked |-> TRUE]
    ELSE LET locked == MUTEX_LOCK(mtx)
         IN  [ret |-> lockfree_is_empty(rb), mtx |-> MUTEX_UNLOCK(locked),
              blocked |-> FALSE]

mutex_is_full(rb, mtx) ==
    IF rb = NULL THEN [ret |-> FALSE, mtx |-> mtx, blocked |-> FALSE]
    ELSE IF rb.lock = NULL THEN [ret |-> FALSE, mtx |-> mtx, blocked |-> FALSE]
    ELSE IF MutexBusy(mtx) THEN [ret |-> FALSE, mtx |-> mtx, blocked |-> TRUE]
    ELSE LET locked == MUTEX_LOCK(mtx)
         IN  [ret |-> lockfree_is_full(rb), mtx |-> MUTEX_UNLOCK(locked),
              blocked |-> FALSE]

\* A variant that takes and gives the lock without delegating.
mutex_clear_nodelegate(rb, mtx) ==
    IF rb = NULL THEN [rb |-> rb, mtx |-> mtx, blocked |-> FALSE]
    ELSE IF rb.lock = NULL THEN [rb |-> rb, mtx |-> mtx, blocked |-> FALSE]
    ELSE IF MutexBusy(mtx) THEN [rb |-> rb, mtx |-> mtx, blocked |-> TRUE]
    ELSE LET locked == MUTEX_LOCK(mtx)
         IN  [rb |-> rb, mtx |-> MUTEX_UNLOCK(locked), blocked |-> FALSE]

mutex_clear(rb, mtx) ==
    IF rb = NULL THEN [rb |-> rb, mtx |-> mtx, blocked |-> FALSE]
    ELSE IF rb.lock = NULL THEN [rb |-> rb, mtx |-> mtx, blocked |-> FALSE]
    ELSE IF MutexBusy(mtx) THEN [rb |-> rb, mtx |-> mtx, blocked |-> TRUE]
    ELSE LET locked == MUTEX_LOCK(mtx)
         IN  [rb |-> lockfree_clear(rb), mtx |-> MUTEX_UNLOCK(locked),
              blocked |-> FALSE]

(* ------------------------ the operation tables ------------------------ *)

\* ring_buffer_lockfree_ops, ring_buffer_disable_irq_ops, ring_buffer_mutex_ops
\* and the standalone core's ring_buffer_ops.
Tables == {"lockfree", "disable_irq", "mutex", "ring_buffer"}

\* The three strategies of the strategy layer.
Strategies == {"lockfree", "disable_irq", "mutex"}

\* t.write(rb, data) on a machine whose interrupt mask is primask and whose
\* mutex is in state mtx.
ops_write(t, rb, data, primask, mtx) ==
    CASE t = "lockfree" ->
           LET r == lockfree_write(rb, data)
           IN  [rb |-> r.rb, ret |-> r.ret, primask |-> primask, mtx |-> mtx,
                blocked |-> FALSE]
      [] t = "disable_irq" ->
           LET r == disable_irq_write(rb, data, primask)
           IN  [rb |-> r.rb, ret |-> r.ret, primask |-> r.primask, mtx |-> mtx,
                blocked |-> FALSE]
      [] t = "mutex" ->
           LET r == mutex_write(rb, data, mtx)
           IN  [rb |-> r.rb, ret |-> r.ret, primask |-> primask, mtx |-> r.mtx,
                blocked |-> r.blocked]
      [] t = "ring_buffer" ->
           LET r == ring_buffer_write(rb, data)
           IN  [rb |-> r.rb, ret |-> r.ret, primask |-> primask, mtx |-> mtx,
                blocked |-> FALSE]

ops_read(t, rb, data, primask, mtx) ==
    CASE t = "lockfree" ->
           LET r == lockfree_read(rb, data)
           IN  [rb |-> r.rb, ret |-> r.ret, data |-> r.data, primask |-> primask,
                mtx |-> mtx, blocked |-> FALSE]
      [] t = "disable_irq" ->
           LET r == disable_irq_read(rb, data, primask)
           IN  [rb |-> r.rb, ret |-> r.ret, data |-> r.data, primask |-> r.primask,
                mtx |-> mtx, blocked |-> FALSE]
      [] t = "mutex" ->
           LET r == mutex_read(rb, data, mtx)
           IN  [rb |-> r.rb, ret |-> r.ret, data |-> r.data, primask |-> primask,
                mtx |-> r.mtx, blocked |-> r.blocked]
      [] t = "ring_buffer" ->
           LET r == ring_buffer_read(rb, data)
           IN  [rb |-> r.rb, ret |-> r.ret, data |-> r.data, primask |-> primask,
                mtx |-> mtx, blocked |-> FALSE]

ops_write_multi(t, rb, data, len, primask, mtx) ==
    CASE t = "lockfree" ->
           LET r == lockfree_write_multi(rb, data, len)
           IN  [rb |-> r.rb, ret |-> r.ret, primask |-> primask, mtx |-> mtx,
                blocked |-> FALSE]
      [] t = "disable_irq" ->
           LET r == disable_irq_write_multi(rb, data, len, primask)
           IN  [rb |-> r.rb, ret |-> r.ret, primask |-> r.primask, mtx |-> mtx,
                blocked |-> FALSE]
      [] t = "mutex" ->
           LET r == mutex_write_multi(rb, data, len, mtx)
           IN  [rb |-> r.rb, ret |-> r.ret, primask |-> primask, mtx |-> r.mtx,
                blocked |-> r.blocked]
      [] t = "ring_buffer" ->
           LET r == ring_buffer_write_multi(rb, data, len)
           IN  [rb |-> r.rb, ret |-> r.ret, primask |-> primask, mtx |-> mtx,
                blocked |-> FALSE]

ops_read_multi(t, rb, data, len, primask, mtx) ==
    CASE t = "lockfree" ->
           LET r == lockfree_read_multi(rb, data, len)
           IN  [rb |-> r.rb, ret |-> r.ret, data |-> r.data, primask |-> primask,
                mtx |-> mtx, blocked |-> FALSE]
      [] t = "disable_irq" ->
           LET r == disable_irq_read_multi(rb, data, len, primask)
           IN  [rb |-> r.rb, ret |-> r.ret, data |-> r.data, primask |-> r.primask,
                mtx |-> mtx, blocked |-> FALSE]
      [] t = "mutex" ->
           LET r == mutex_read_multi(rb, data, len, mtx)
           IN  [rb |-> r.rb, ret |-> r.ret, data |-> r.data, primask |-> primask,
                mtx |-> r.mtx, blocked |-> r.blocked]
      [] t = "ring_buffer" ->
           LET r == ring_buffer_read_multi(rb, data, len)
           IN  [rb |-> r.rb, ret |-> r.ret, data |-> r.data, primask |-> primask,
                mtx |-> mtx, blocked |-> FALSE]

ops_available(t, rb, primask, mtx) ==
    CASE t = "lockfree" ->
           [ret |-> lockfree_available(rb), primask |-> primask, mtx |-> mtx,
            blocked |-> FALSE]
      [] t = "disable_irq" ->
           LET r == disable_irq_available(rb, primask)
           IN  [ret |-> r.ret, primask |-> r.primask, mtx |-> mtx, blocked |-> FALSE]
      [] t = "mutex" ->
           LET r == mutex_available(rb, mtx)
           IN  [ret |-> r.ret, primask |-> primask, mtx |-> r.mtx,
                blocked |-> r.blocked]
      [] t = "ring_buffer" ->
           [ret |-> ring_buffer_available(rb), primask |-> primask, mtx |-> mtx,
            blocked |-> FALSE]

ops_free_space(t, rb, primask, mtx) ==
    CASE t = "lockfree" ->
           [ret |-> lockfree_free_space(rb), primask |-> primask, mtx |-> mtx,
            blocked |-> FALSE]
      [] t = "disable_irq" ->
           LET r == disable_irq_free_space(rb, primask)
           IN  [ret |-> r.ret, primask |-> r.primask, mtx |-> mtx, blocked |-> FALSE]
      [] t = "mutex" ->
           LET r == mutex_free_space(rb, mtx)
           IN  [ret |-> r.ret, primask |-> primask, mtx |-> r.mtx,
                blocked |-> r.blocked]
      [] t = "ring_buffer" ->
           [ret |-> ring_buffer_free_space(rb), primask |-> primask, mtx |-> mtx,
            blocked |-> FALSE]

ops_is_empty(t, rb, primask, mtx) ==
    CASE t = "lockfree" ->
           [ret |-> lockfree_is_empty(rb), primask |-> primask, mtx |-> mtx,
            blocked |-> FALSE]
      [] t = "disable_irq" ->
           LET r == disable_irq_is_empty(rb, primask)
           IN  [ret |-> r.ret, primask |-> r.primask, mtx |-> mtx, blocked |-> FALSE]
      [] t = "mutex" ->
           LET r == mutex_is_empty(rb, mtx)
           IN  [ret |-> r.ret, primask |-> primask, mtx |-> r.mtx,
                blocked |-> r.blocked]
      [] t = "ring_buffer" ->
           [ret |-> ring_buffer_is_empty(rb), primask |-> primask, mtx |-> mtx,
            blocked |-> FALSE]

ops_is_full(t, rb, primask, mtx) ==
    CASE t = "lockfree" ->
           [ret |-> lockfree_is_full(rb), primask |-> primask, mtx |-> mtx,
            blocked |-> FALSE]
      [] t = "disable_irq" ->
           LET r == disable_irq_is_full(rb, primask)
           IN  [ret |-> r.ret, primask |-> r.primask, mtx |-> mtx, blocked |-> FALSE]
      [] t = "mutex" ->
           LET r == mutex_is_full(rb, mtx)
           IN  [ret |-> r.ret, primask |-> primask, mtx |-> r.mtx,
                blocked |-> r.blocked]
      [] t = "ring_buffer" ->
           [ret |-> ring_buffer_is_full(rb), primask |-> primask, mtx |-> mtx,
            blocked |-> FALSE]

ops_clear(t, rb, primask, mtx) ==
    CASE t = "lockfree" ->
           [rb |-> lockfree_clear(rb), primask |-> primask, mtx |-> mtx,
            blocked |-> FALSE]
      [] t = "disable_irq" ->
           LET r == disable_irq_clear(rb, primask)
           IN  [rb |-> r.rb, primask |-> r.primask, mtx |-> mtx, blocked |-> FALSE]
      [] t = "mutex" ->
           LET r == mutex_clear(rb, mtx)
           IN  [rb |-> r.rb, primask |-> primask, mtx |-> r.mtx,
                blocked |-> r.blocked]
      [] t = "ring_buffer" ->
           [rb |-> ring_buffer_clear(rb), primask |-> primask, mtx |-> mtx,
            blocked |-> FALSE]

\* The operation with undefined behaviour that t.o(rb, data, len) executes, or
\* "none".  The critical-section wrappers test what the lock-free functions
\* test and delegate; the mutex wrappers return before the lock when rb->lock
\* is NULL.
ops_undefined(t, o, rb, data, len, mtx) ==
    CASE t = "lockfree" -> lockfree_undefined(o, rb, data, len)
      [] t = "disable_irq" -> lockfree_undefined(o, rb, data, len)
      [] t = "mutex" ->
           IF rb = NULL THEN "none"
           ELSE IF rb.lock = NULL \/ MutexBusy(mtx) THEN "none"
           ELSE lockfree_undefined(o, rb, data, len)
      [] t = "ring_buffer" -> ring_buffer_undefined(o, rb, data, len)

(* ----------------------------- construction --------------------------- *)

\* A ring_buffer_t before construction (zero-filled), beside the caller's
\* storage region mem, which the structure does not own.
Unconstructed(mem) ==
    [buffer |-> NULL, size |-> 0, head |-> 0, tail |-> 0, lock |-> NULL,
     ops |-> "NULL", mem |-> mem]

\* The factory: validates, resets the indices, binds the operation table of
\* the strategy and, for the mutex strategy, creates the lock (created tells
\* whether MUTEX_CREATE() succeeds).
ring_buffer_create(rb, buffer, size, type, created) ==
    IF rb = NULL \/ buffer = NULL \/ size < RING_BUFFER_MIN_SIZE
    THEN [rb |-> rb, ret |-> FALSE]
    ELSE LET fresh == [rb EXCEPT !.buffer = buffer, !.size = size, !.head = 0,
                                 !.tail = 0, !.lock = NULL]
         IN  IF type = "mutex"
             THEN LET m == ring_buffer_mutex_init(fresh, created)
                  IN  IF m.ret
                      THEN [rb |-> [m.rb EXCEPT !.ops = type], ret |-> TRUE]
                      ELSE [rb |-> [fresh EXCEPT !.ops = "NULL"], ret |-> FALSE]
             ELSE IF type \in Strategies
             THEN [rb |-> [fresh EXCEPT !.ops = type], ret |-> TRUE]
             ELSE [rb |-> [fresh EXCEPT !.ops = "NULL"], ret |-> FALSE]

\* The factory's destroy: releases the lock if the buffer owns one, then
\* clears every field; the storage region is the caller's and is left as it is.
ring_buffer_destroy(rb, mtx) ==
    IF rb = NULL THEN [rb |-> rb, mtx |-> mtx]
    ELSE LET d == ring_buffer_mutex_deinit(rb, mtx)
         IN  [rb |-> Unconstructed(d.rb.mem), mtx |-> d.mtx]

(* ---------------------- the custom-strategy registry ------------------ *)

\* The first value of ring_buffer_type_t open to custom strategies: the
\* enumerators before it are LOCKFREE = 0, DISABLE_IRQ and MUTEX.
RING_BUFFER_TYPE_CUSTOM_BASE == 3

\* The number of entries the registry has room for.
RegistryCapacity == 4

\* The types registered in reg, a sequence of entries in registration order.
Registered(reg) == {reg[i].type : i \in 1..Len(reg)}

\* A registration that does not look for the type among the entries.
ring_buffer_register_ops_dup(reg, type, ops) ==
    IF type < RING_BUFFER_TYPE_CUSTOM_BASE \/ Len(reg) >= RegistryCapacity
    THEN [registry |-> reg, ret |-> FALSE]
    ELSE [registry |-> Append(reg, [type |-> type, ops |-> ops]), ret |-> TRUE]

\* ring_buffer_register_ops(type, ops): refuses a type below the custom
\* base, a type already registered and a registration when the registry is
\* full; otherwise appends the entry.
ring_buffer_register_ops(reg, type, ops) ==
    IF \/ type < RING_BUFFER_TYPE_CUSTOM_BASE
       \/ type \in Registered(reg)
       \/ Len(reg) >= RegistryCapacity
    THEN [registry |-> reg, ret |-> FALSE]
    ELSE [registry |-> Append(reg, [type |-> type, ops |-> ops]), ret |-> TRUE]

(* ------------------------------ the state ----------------------------- *)

VARIABLES
    rbs,        \* rbs[t]: the ring_buffer_t driven through table t, with its storage,
                \* for each table t of the run
    primask,    \* the CPU's interrupt mask (1: interrupt delivery disabled)
    mtx,        \* the state of the mutex buffer's RTOS mutex
    op,         \* the last operation called: its name, the bytes passed to it (the
                \* byte of write, the source array of write_multi) and its len
    rets,       \* rets[t]: what that operation returned through table t
    dsts,       \* dsts[t]: the caller's destination array after the last read of table t
    accepted,   \* accepted[t]: the bytes the writes accepted and clear() has not discarded
    delivered,  \* delivered[t]: the bytes the reads returned, in order
    fault,      \* the operation with undefined behaviour a call has executed (a
                \* modulo by zero, an access through a null storage pointer, a
                \* copy outside the storage region), or "none"
    registry,   \* the entries of the custom-strategy registry, in registration order
    platform,   \* the branch of the IRQ_SAVE / IRQ_RESTORE definitions the build
                \* compiled: "cortex_m" (or AVR, which has the same shape) or
                \* "default"
    \* The concurrent runs (SpecSPSC, SpecMutex): one buffer shared by tasks.
    crb,        \* the shared ring_buffer_t, with its storage
    owner,      \* the task holding the buffer's RTOS mutex, or "none"
    pc,         \* pc[p]: where task p stands in the call it is making, or "idle"
    loc,        \* loc[p]: the arguments and local variables of that call
    stream,     \* stream[p]: how many bytes producer p has had accepted, modulo rb->size
    wlog,       \* the bytes accepted, in the order their writes published them
    rlog        \* the bytes delivered, in the order their reads released them

\* The variables of the sequential runs, and those of the concurrent runs.
svars == <<rbs, primask, mtx, op, rets, dsts, accepted, delivered, fault, platform,
          registry>>

cvars == <<crb, owner, pc, loc, stream, wlog, rlog>>

vars == <<svars, cvars>>

Sizes == RING_BUFFER_MIN_SIZE..MaxSize

Lens == 0..MaxLen

\* The source arrays of write_multi: every array of at most MaxLen bytes.
Sources == UNION {[1..k -> Bytes] : k \in Lens}

\* The destination array a caller passes to read and read_multi: MaxLen bytes,
\* zero-filled before the call.
DestBlank == [i \in 1..MaxLen |-> 0]

\* The first n elements of a sequence.
Take(s, n) == SubSeq(s, 1, n)

\* The records of accepted and delivered bytes are kept without their common
\* prefix: dropping the same leading byte from both changes neither whether
\* one is a prefix of the other nor what remains of accepted after delivered.
RECURSIVE Cancel(_, _)
Cancel(acc, del) ==
    IF acc # <<>> /\ del # <<>> /\ Head(acc) = Head(del)
    THEN Cancel(Tail(acc), Tail(del))
    ELSE [accepted |-> acc, delivered |-> del]

\* The tables this run drives.
Bound == DOMAIN rbs

\* The interrupt mask and the mutex after one call through each table of r:
\* only the critical-section table touches the first, only the mutex table
\* the second.
MaskAfter(r) ==
    IF "disable_irq" \in DOMAIN r THEN r["disable_irq"].primask ELSE primask

MutexAfter(r) ==
    IF "mutex" \in DOMAIN r THEN r["mutex"].mtx ELSE mtx

\* No record has outgrown MaxHist.
InBudget ==
    \A t \in Bound : Len(accepted[t]) <= MaxHist /\ Len(delivered[t]) <= MaxHist

Construct(tables) ==
    /\ \E size \in Sizes :
         rbs = [t \in tables |->
                  LET blank == Unconstructed([i \in 0..(size - 1) |-> 0])
                  IN  IF t = "ring_buffer"
                      THEN ring_buffer_init(blank, STORAGE, size).rb
                      ELSE ring_buffer_create(blank, STORAGE, size, t, TRUE).rb]
    /\ primask = 0
    /\ mtx = "unlocked"
    /\ op = [name |-> "create", data |-> <<>>, len |-> 0]
    /\ rets = [t \in tables |-> TRUE]
    /\ dsts = [t \in tables |-> DestBlank]
    /\ accepted = [t \in tables |-> <<>>]
    /\ delivered = [t \in tables |-> <<>>]
    /\ fault = "none"
    /\ registry = <<>>
    /\ platform = "cortex_m"

\* A sequential run has no tasks.
NoTasks ==
    /\ crb = NULL
    /\ owner = "none"
    /\ pc = <<>>
    /\ loc = <<>>
    /\ stream = <<>>
    /\ wlog = <<>>
    /\ rlog = <<>>

\* One run drives either the three strategy tables, side by side on three
\* buffers of one size, or the standalone core.
Init ==
    /\ \E tables \in {Strategies, {"ring_buffer"}} : Construct(tables)
    /\ NoTasks

Write(d) ==
    /\ InBudget
    /\ \E r \in {[t \in Bound |-> ops_write(t, rbs[t], d, primask, mtx)]} :
           /\ \A t \in Bound : ~r[t].blocked
           /\ rbs' = [t \in Bound |-> r[t].rb]
           /\ rets' = [t \in Bound |-> r[t].ret]
           /\ primask' = MaskAfter(r)
           /\ mtx' = MutexAfter(r)
           /\ accepted' = [t \in Bound |->
                             IF r[t].ret THEN Append(accepted[t], d) ELSE accepted[t]]
    /\ op' = [name |-> "write", data |-> <<d>>, len |-> 1]
    /\ UNCHANGED <<dsts, delivered>>
    /\ UNCHANGED <<cvars, fault, platform, registry>>

Read ==
    /\ InBudget
    /\ \E r \in {[t \in Bound |-> ops_read(t, rbs[t], Ptr(DestBlank), primask, mtx)]} :
           /\ \A t \in Bound : ~r[t].blocked
           /\ rbs' = [t \in Bound |-> r[t].rb]
           /\ rets' = [t \in Bound |-> r[t].ret]
           /\ dsts' = [t \in Bound |-> r[t].data.bytes]
           /\ primask' = MaskAfter(r)
           /\ mtx' = MutexAfter(r)
           /\ \E c \in {[t \in Bound |->
                          IF r[t].ret
                          THEN Cancel(accepted[t],
                                      Append(delivered[t], r[t].data.bytes[1]))
                          ELSE Cancel(accepted[t], delivered[t])]} :
                /\ accepted' = [t \in Bound |-> c[t].accepted]
                /\ delivered' = [t \in Bound |-> c[t].delivered]
    /\ op' = [name |-> "read", data |-> <<>>, len |-> 1]
    /\ UNCHANGED <<cvars, fault, platform, registry>>

WriteMulti(data) ==
    /\ InBudget
    /\ \E r \in {[t \in Bound |->
                    ops_write_multi(t, rbs[t], Ptr(data), Len(data), primask, mtx)]} :
           /\ \A t \in Bound : ~r[t].blocked
           /\ rbs' = [t \in Bound |-> r[t].rb]
           /\ rets' = [t \in Bound |-> r[t].ret]
           /\ primask' = MaskAfter(r)
           /\ mtx' = MutexAfter(r)
           /\ accepted' = [t \in Bound |-> accepted[t] \o Take(data, r[t].ret)]
    /\ op' = [name |-> "write_multi", data |-> data, len |-> Len(data)]
    /\ UNCHANGED <<dsts, delivered>>
    /\ UNCHANGED <<cvars, fault, platform, registry>>

ReadMulti(len) ==
    /\ InBudget
    /\ \E r \in {[t \in Bound |->
                    ops_read_multi(t, rbs[t], Ptr(DestBlank), len, primask, mtx)]} :
           /\ \A t \in Bound : ~r[t].blocked
           /\ rbs' = [t \in Bound |-> r[t].rb]
           /\ rets' = [t \in Bound |-> r[t].ret]
           /\ dsts' = [t \in Bound |-> r[t].data.bytes]
           /\ primask' = MaskAfter(r)
           /\ mtx' = MutexAfter(r)
           /\ \E c \in {[t \in Bound |->
                          Cancel(accepted[t],
                                 delivered[t] \o Take(r[t].data.bytes, r[t].ret))]} :
                /\ accepted' = [t \in Bound |-> c[t].accepted]
                /\ delivered' = [t \in Bound |-> c[t].delivered]
    /\ op' = [name |-> "read_multi", data |-> <<>>, len |-> len]
    /\ UNCHANGED <<cvars, fault, platform, registry>>

Available ==
    /\ InBudget
    /\ \E r \in {[t \in Bound |-> ops_available(t, rbs[t], primask, mtx)]} :
           /\ \A t \in Bound : ~r[t].blocked
           /\ rets' = [t \in Bound |-> r[t].ret]
           /\ primask' = MaskAfter(r)
           /\ mtx' = MutexAfter(r)
    /\ op' = [name |-> "available", data |-> <<>>, len |-> 0]
    /\ UNCHANGED <<rbs, dsts, accepted, delivered>>
    /\ UNCHANGED <<cvars, fault, platform, registry>>

FreeSpace ==
    /\ InBudget
    /\ \E r \in {[t \in Bound |-> ops_free_space(t, rbs[t], primask, mtx)]} :
           /\ \A t \in Bound : ~r[t].blocked
           /\ rets' = [t \in Bound |-> r[t].ret]
           /\ primask' = MaskAfter(r)
           /\ mtx' = MutexAfter(r)
    /\ op' = [name |-> "free_space", data |-> <<>>, len |-> 0]
    /\ UNCHANGED <<rbs, dsts, accepted, delivered>>
    /\ UNCHANGED <<cvars, fault, platform, registry>>

IsEmpty ==
    /\ InBudget
    /\ \E r \in {[t \in Bound |-> ops_is_empty(t, rbs[t], primask, mtx)]} :
           /\ \A t \in Bound : ~r[t].blocked
           /\ rets' = [t \in Bound |-> r[t].ret]
           /\ primask' = MaskAfter(r)
           /\ mtx' = MutexAfter(r)
    /\ op' = [name |-> "is_empty", data |-> <<>>, len |-> 0]
    /\ UNCHANGED <<rbs, dsts, accepted, delivered>>
    /\ UNCHANGED <<cvars, fault, platform, registry>>

IsFull ==
    /\ InBudget
    /\ \E r \in {[t \in Bound |-> ops_is_full(t, rbs[t], primask, mtx)]} :
           /\ \A t \in Bound : ~r[t].blocked
           /\ rets' = [t \in Bound |-> r[t].ret]
           /\ primask' = MaskAfter(r)
           /\ mtx' = MutexAfter(r)
    /\ op' = [name |-> "is_full", data |-> <<>>, len |-> 0]
    /\ UNCHANGED <<rbs, dsts, accepted, delivered>>
    /\ UNCHANGED <<cvars, fault, platform, registry>>

\* clear() returns nothing: rets keeps 0 for it.  The bytes it discards leave
\* the record of accepted bytes.
Clear ==
    /\ InBudget
    /\ \E r \in {[t \in Bound |-> ops_clear(t, rbs[t], primask, mtx)]} :
           /\ \A t \in Bound : ~r[t].blocked
           /\ rbs' = [t \in Bound |-> r[t].rb]
           /\ primask' = MaskAfter(r)
           /\ mtx' = MutexAfter(r)
    /\ rets' = [t \in Bound |-> 0]
    /\ accepted' = delivered
    /\ op' = [name |-> "clear", data |-> <<>>, len |-> 0]
    /\ UNCHANGED <<dsts, delivered>>
    /\ UNCHANGED <<cvars, fault, platform, registry>>

Next ==
    \/ \E d \in Bytes : Write(d)
    \/ Read
    \/ \E data \in Sources : WriteMulti(data)
    \/ \E len \in Lens : ReadMulti(len)
    \/ Available
    \/ FreeSpace
    \/ IsEmpty
    \/ IsFull
    \/ Clear

Spec == Init /\ [][Next]_vars

(* ================ the life of one buffer object ======================= *)
(* One caller-allocated ring_buffer_t and its storage region, driven      *)
(* through one operation table: constructed, used, destroyed and          *)
(* constructed again, and called with the arguments the operations test   *)
(* for (a null rb, a null data pointer, len = 0) on whatever the object    *)
(* holds at that moment.                                                  *)

\* A pointer argument: to the caller's object, or null.
Pointers == {"valid", "NULL"}

\* What a ring_buffer_t over a storage region of cap bytes can hold before it
\* has ever been constructed: zeroes (a static object) or stale values (an
\* automatic one), none of them a valid buffer.
Stale(cap) ==
    {rb \in {[buffer |-> b, size |-> sz, head |-> h, tail |-> tl, lock |-> NULL,
              ops |-> "NULL", mem |-> [i \in 0..(cap - 1) |-> 0]] :
                b \in {NULL, STORAGE}, sz \in {0, 1, cap}, h \in {0, 1}, tl \in {0, 1}} :
        rb.buffer = NULL \/ rb.size < RING_BUFFER_MIN_SIZE}

\* The size of the storage region beside rb.
Region(rb) == Cardinality(DOMAIN rb.mem)

\* The arguments of the last call: name, the bytes and len passed, whether rb
\* and the data (for create: storage) pointer were null, and for create
\* whether MUTEX_CREATE() would succeed.
LifeOp(name, data, len, rb, ptr, created) ==
    [name |-> name, data |-> data, len |-> len, rb |-> rb, ptr |-> ptr,
     created |-> created]

LifeInit ==
    /\ \E t \in Tables, cap \in Sizes :
         \E rb \in Stale(cap) : rbs = [x \in {t} |-> rb]
    /\ primask = 0
    /\ mtx = "none"
    /\ op = LifeOp("none", <<>>, 0, "valid", "valid", TRUE)
    /\ rets = [t \in DOMAIN rbs |-> FALSE]
    /\ dsts = [t \in DOMAIN rbs |-> DestBlank]
    /\ accepted = [t \in DOMAIN rbs |-> <<>>]
    /\ delivered = [t \in DOMAIN rbs |-> <<>>]
    /\ fault = "none"
    /\ registry = <<>>
    /\ platform = "cortex_m"
    /\ NoTasks

\* The call executes the undefined operation kind: the run ends there, and
\* the value the call hands back, if it returns at all, is any value of its
\* return type.
LifeTrap(kind, values) ==
    /\ fault' = kind
    /\ \E v \in values : rets' = [t \in Bound |-> v]
    /\ UNCHANGED <<rbs, dsts, primask, mtx>>

\* The call returns ret, having left the object as rb (a call on a null rb
\* leaves the caller's object alone) and the destination array as dst.
LifeReturn(ptr, rb, ret, dst, pm, mx) ==
    /\ rbs' = [t \in Bound |-> IF ptr = "NULL" THEN rbs[t] ELSE rb]
    /\ rets' = [t \in Bound |-> ret]
    /\ dsts' = [t \in Bound |-> dst]
    /\ primask' = pm
    /\ mtx' = mx
    /\ fault' = "none"

\* The rb argument of a call.
RbArg(t, ptr) == IF ptr = "NULL" THEN NULL ELSE rbs[t]

\* ring_buffer_init for the standalone core, the factory for the strategies.
LifeCreate(buffer, size, created) ==
    /\ fault = "none"
    /\ created \/ "mutex" \in Bound
    /\ \E t \in Bound :
         /\ size \in {0, 1, Region(rbs[t])}
         /\ \E r \in {IF t = "ring_buffer"
                       THEN ring_buffer_init(rbs[t], buffer, size)
                       ELSE ring_buffer_create(rbs[t], buffer, size, t, created)} :
              LifeReturn("valid", r.rb, r.ret, dsts[t], primask,
                         IF t = "mutex" /\ r.ret THEN "unlocked" ELSE mtx)
    /\ op' = LifeOp("create", <<>>, size, "valid",
                    IF buffer = NULL THEN "NULL" ELSE "valid", created)
    /\ UNCHANGED <<accepted, delivered>>
    /\ UNCHANGED <<cvars, platform, registry>>

LifeDestroy ==
    /\ fault = "none"
    /\ Bound \subseteq Strategies
    /\ \E t \in Bound :
         \E r \in {ring_buffer_destroy(rbs[t], mtx)} :
           LifeReturn("valid", r.rb, 0, dsts[t], primask, r.mtx)
    /\ op' = LifeOp("destroy", <<>>, 0, "valid", "valid", TRUE)
    /\ UNCHANGED <<accepted, delivered>>
    /\ UNCHANGED <<cvars, platform, registry>>

LifeWrite(ptr, d) ==
    /\ fault = "none"
    /\ \E t \in Bound :
         \E rb \in {RbArg(t, ptr)} :
           \E u \in {ops_undefined(t, "write", rb, NULL, 1, mtx)} :
             IF u # "none" THEN LifeTrap(u, BOOLEAN)
             ELSE \E r \in {ops_write(t, rb, d, primask, mtx)} :
                    /\ ~r.blocked
                    /\ LifeReturn(ptr, r.rb, r.ret, dsts[t], r.primask, r.mtx)
    /\ op' = LifeOp("write", <<d>>, 1, ptr, "valid", TRUE)
    /\ UNCHANGED <<accepted, delivered>>
    /\ UNCHANGED <<cvars, platform, registry>>

LifeRead(ptr, dst) ==
    /\ fault = "none"
    /\ \E t \in Bound :
         \E rb \in {RbArg(t, ptr)},
            data \in {IF dst = "NULL" THEN NULL ELSE Ptr(DestBlank)} :
           \E u \in {ops_undefined(t, "read", rb, data, 1, mtx)} :
             IF u # "none" THEN LifeTrap(u, BOOLEAN)
             ELSE \E r \in {ops_read(t, rb, data, primask, mtx)} :
                    /\ ~r.blocked
                    /\ LifeReturn(ptr, r.rb, r.ret,
                                  IF r.data = NULL THEN dsts[t] ELSE r.data.bytes,
                                  r.primask, r.mtx)
    /\ op' = LifeOp("read", <<>>, 1, ptr, dst, TRUE)
    /\ UNCHANGED <<accepted, delivered>>
    /\ UNCHANGED <<cvars, platform, registry>>

LifeWriteMulti(ptr, src, len) ==
    /\ fault = "none"
    /\ \E t \in Bound :
         \E rb \in {RbArg(t, ptr)},
            data \in {IF src = "NULL" THEN NULL ELSE Ptr([i \in 1..len |-> 1])} :
           \E u \in {ops_undefined(t, "write_multi", rb, data, len, mtx)} :
             IF u # "none" THEN LifeTrap(u, 0..len)
             ELSE \E r \in {ops_write_multi(t, rb, data, len, primask, mtx)} :
                    /\ ~r.blocked
                    /\ LifeReturn(ptr, r.rb, r.ret, dsts[t], r.primask, r.mtx)
    /\ op' = LifeOp("write_multi", [i \in 1..len |-> 1], len, ptr, src, TRUE)
    /\ UNCHANGED <<accepted, delivered>>
    /\ UNCHANGED <<cvars, platform, registry>>

LifeReadMulti(ptr, dst, len) ==
    /\ fault = "none"
    /\ \E t \in Bound :
         \E rb \in {RbArg(t, ptr)},
            data \in {IF dst = "NULL" THEN NULL ELSE Ptr(DestBlank)} :
           \E u \in {ops_undefined(t, "read_multi", rb, data, len, mtx)} :
             IF u # "none" THEN LifeTrap(u, 0..len)
             ELSE \E r \in {ops_read_multi(t, rb, data, len, primask, mtx)} :
                    /\ ~r.blocked
                    /\ LifeReturn(ptr, r.rb, r.ret,
                                  IF r.data = NULL THEN dsts[t] ELSE r.data.bytes,
                                  r.primask, r.mtx)
    /\ op' = LifeOp("read_multi", <<>>, len, ptr, dst, TRUE)
    /\ UNCHANGED <<accepted, delivered>>
    /\ UNCHANGED <<cvars, platform, registry>>

\* available, free_space, is_empty and is_full: o names the query.
LifeQuery(o, ptr) ==
    /\ fault = "none"
    /\ \E t \in Bound :
         \E rb \in {RbArg(t, ptr)} :
           \E u \in {ops_undefined(t, o, rb, NULL, 0, mtx)} :
             IF u # "none" THEN LifeTrap(u, BOOLEAN)
             ELSE \E r \in {CASE o = "available" -> ops_available(t, rb, primask, mtx)
                              [] o = "free_space" -> ops_free_space(t, rb, primask, mtx)
                              [] o = "is_empty" -> ops_is_empty(t, rb, primask, mtx)
                              [] o = "is_full" -> ops_is_full(t, rb, primask, mtx)} :
                    /\ ~r.blocked
                    /\ LifeReturn("NULL", rb, r.ret, dsts[t], r.primask, r.mtx)
    /\ op' = LifeOp(o, <<>>, 0, ptr, "valid", TRUE)
    /\ UNCHANGED <<accepted, delivered>>
    /\ UNCHANGED <<cvars, platform, registry>>

LifeClear(ptr) ==
    /\ fault = "none"
    /\ \E t \in Bound :
         \E rb \in {RbArg(t, ptr)} :
           \E r \in {ops_clear(t, rb, primask, mtx)} :
             /\ ~r.blocked
             /\ LifeReturn(ptr, r.rb, 0, dsts[t], r.primask, r.mtx)
    /\ op' = LifeOp("clear", <<>>, 0, ptr, "valid", TRUE)
    /\ UNCHANGED <<accepted, delivered>>
    /\ UNCHANGED <<cvars, platform, registry>>

Queries == {"available", "free_space", "is_empty", "is_full"}

LifeNext ==
    \/ \E buffer \in {NULL, STORAGE}, size \in 0..MaxSize, created \in BOOLEAN :
         LifeCreate(buffer, size, created)
    \/ LifeDestroy
    \/ \E ptr \in Pointers, d \in Bytes : LifeWrite(ptr, d)
    \/ \E ptr \in Pointers, dst \in Pointers : LifeRead(ptr, dst)
    \/ \E ptr \in Pointers, src \in Pointers, len \in Lens : LifeWriteMulti(ptr, src, len)
    \/ \E ptr \in Pointers, dst \in Pointers, len \in Lens : LifeReadMulti(ptr, dst, len)
    \/ \E o \in Queries, ptr \in Pointers : LifeQuery(o, ptr)
    \/ \E ptr \in Pointers : LifeClear(ptr)

SpecLife == LifeInit /\ [][LifeNext]_vars

(* ============ a mutex-guarded buffer whose lock is deleted ============ *)

\* ring_buffer_mutex_deinit(rb), called by the user of a constructed
\* mutex-guarded buffer; the function returns nothing.
MutexDeinit(ptr) ==
    /\ InBudget
    /\ \E r \in {[t \in Bound |-> ring_buffer_mutex_deinit(RbArg(t, ptr), mtx)]} :
           /\ rbs' = [t \in Bound |-> IF ptr = "NULL" THEN rbs[t] ELSE r[t].rb]
           /\ mtx' = MutexAfter(r)
    /\ op' = [name |-> "deinit", data |-> <<>>, len |-> 0]
    /\ UNCHANGED <<primask, rets, dsts, accepted, delivered>>
    /\ UNCHANGED <<cvars, fault, platform, registry>>

InitDeinit ==
    /\ Construct({"mutex"})
    /\ NoTasks

NextDeinit ==
    \/ Next
    \/ \E ptr \in Pointers : MutexDeinit(ptr)

SpecDeinit == InitDeinit /\ [][NextDeinit]_vars

(* =============== the concurrent runs: tasks on one buffer ============= *)
(* A task makes one call at a time through rb->ops.  A call is a sequence *)
(* of steps in program order, one step per load or store of rb->head,     *)
(* rb->tail, a slot of rb->buffer or the lock; the steps of different     *)
(* tasks interleave freely.  volatile keeps the loads and stores of the   *)
(* indices as written, and the file header of ring_buffer_lockfree.c      *)
(* restricts the guarantee to single-core targets, where an interrupting  *)
(* context sees the interrupted one's stores in program order.            *)

\* Largest len a task passes to write_multi / read_multi.
MaxBurst == 2

\* The tasks that write, and the tasks that read: p1 and p2 only write, c1
\* only reads, t1 and t2 do both, and so does the main loop of a critical-section
\* run, whose interrupt handler only writes.
Producers == {"p1", "p2", "t1", "t2", "main", "isr"}

Consumers == {"c1", "t1", "t2", "main"}

\* The byte values a producer offers: a call offers the next values of the
\* producer's own counter of the bytes it has had accepted, which wraps after
\* one value more than the buffer has slots, so that the values a slot
\* receives on successive laps differ, and a byte lost, duplicated, out of
\* place or read before it was stored shows in the value delivered.  The
\* values of different producers are disjoint, and none is 0, the value of
\* a slot never written.
StreamMod == crb.size + 1

Tag(p) == IF p \in {"p1", "t1", "main"} THEN 0 ELSE StreamMod

\* The i-th byte (from 0) producer p offers next.
Offer(p, i) == Tag(p) + 1 + ((stream[p] + i) % StreamMod)

Tasks == DOMAIN pc

Bursts == 0..MaxBurst

\* The arguments and local variables of a call, before it starts.
Locals ==
    [op |-> "none", data |-> <<>>, len |-> 0, head |-> 0, tail |-> 0,
     next |-> 0, n |-> 0, todo |-> {}, out |-> <<>>, first |-> "none",
     state |-> 0, mask |-> 0]

\* The first step of the core operation o.
CoreEntry(o) ==
    CASE o = "write" -> "w_next_head"
      [] o = "read" -> "r_compare_first"
      [] o = "write_multi" -> "wm_avail_head"
      [] o = "read_multi" -> "rm_avail_head"

\* Where a call to o through rb->ops with the argument len leads: into the
\* lock-free operation, or to the lock of the mutex wrapper once its guard
\*     if (!rb || !data || len == 0 || !rb->lock) return 0;
\* has passed (rb->lock is not written while the tasks run).
Enter(o, len) ==
    CASE crb.ops = "mutex" ->
           IF crb.lock = NULL \/ len = 0 THEN "idle" ELSE "m_lock"
      [] crb.ops = "disable_irq" ->
           IF len = 0 THEN "idle" ELSE "i_get_state"
      [] OTHER ->
           IF len = 0 THEN "idle" ELSE CoreEntry(o)

\* Where a task stands when its core operation has returned.
AfterCore ==
    CASE crb.ops = "mutex" -> "m_unlock"
      [] crb.ops = "disable_irq" -> "i_restore"
      [] OTHER -> "idle"

\* The labels of the steps of the core operations.
CoreLabels ==
    {"w_next_head", "w_full_check", "w_load_head", "w_store_slot",
     "w_store_head", "r_compare_first", "r_compare_second", "r_load_tail",
     "r_load_slot", "r_reload_tail", "r_store_tail", "wm_avail_head",
     "wm_avail_tail", "wm_load_head", "wm_copy", "wm_store_head",
     "rm_avail_head", "rm_avail_tail", "rm_load_tail", "rm_copy",
     "rm_store_tail"}

\* One core runs the main loop and the interrupt handler of a
\* critical-section run: the handler is entered only while interrupt delivery
\* is enabled and then runs until it returns, and the main loop runs only
\* while no handler does.  The tasks of the other runs are scheduled freely.
\* In every run an idle task starts a call only while every byte delivered has been
\* the next byte accepted and no more bytes are accepted and undelivered
\* than the buffer can hold: a run is followed up to the first byte lost or
\* delivered out of turn.
Scheduled(p) ==
    /\ IF crb.ops # "disable_irq" THEN TRUE
       ELSE IF p = "isr"
       THEN pc["isr"] # "idle" \/ primask = 0
       ELSE pc["isr"] = "idle"
    /\ pc[p] = "idle" => (Len(wlog) < crb.size /\ rlog = <<>>)

\* Task p of this run stands at label l, and runs.
At(p, l) == p \in Tasks /\ pc[p] = l /\ Scheduled(p)

\* Task p moves to label l, its locals becoming v.
Goto(p, l, v) ==
    /\ pc' = [pc EXCEPT ![p] = l]
    /\ loc' = [loc EXCEPT ![p] = v]

\* The core operation of task p returns: its locals are gone, those of the
\* wrapper that called it remain.
Return(p) ==
    Goto(p, AfterCore, [Locals EXCEPT !.state = loc[p].state, !.mask = loc[p].mask])

\* The slot a bulk copy that started at index from uses for its k-th byte
\* (k from 0): the first chunk runs up to the end of the storage, the second
\* chunk starts at slot 0.
ChunkSlot(from, k, size) == IF from + k < size THEN from + k ELSE from + k - size

\* One buffer of some size, constructed for the strategy type, its storage
\* zero-filled, and the tasks idle.
ConstructShared(type, tasks) ==
    /\ \E size \in Sizes :
         crb = ring_buffer_create(Unconstructed([i \in 0..(size - 1) |-> 0]),
                                  STORAGE, size, type, TRUE).rb
    /\ owner = "none"
    /\ pc = [p \in tasks |-> "idle"]
    /\ loc = [p \in tasks |-> Locals]
    /\ stream = [p \in tasks \cap Producers |-> 0]
    /\ wlog = <<>>
    /\ rlog = <<>>

\* A concurrent run drives no table side by side.
NoTables ==
    /\ rbs = <<>>
    /\ primask = 0
    /\ mtx = "unlocked"
    /\ op = [name |-> "create", data |-> <<>>, len |-> 0]
    /\ rets = <<>>
    /\ dsts = <<>>
    /\ accepted = <<>>
    /\ delivered = <<>>
    /\ fault = "none"
    /\ registry = <<>>

(* ------------------------------ the calls ----------------------------- *)

CallWrite(p) ==
    /\ p \in Producers
    /\ At(p, "idle")
    /\ Goto(p, Enter("write", 1),
            [Locals EXCEPT !.op = "write", !.data = <<Offer(p, 0)>>, !.len = 1])
    /\ UNCHANGED <<crb, owner, stream, wlog, rlog>>
    /\ UNCHANGED svars

CallWriteMulti(p, len) ==
    /\ p \in Producers
    /\ At(p, "idle")
    /\ Goto(p, Enter("write_multi", len),
            IF len = 0 THEN Locals
            ELSE [Locals EXCEPT !.op = "write_multi",
                                !.data = [i \in 1..len |-> Offer(p, i - 1)],
                                !.len = len])
    /\ UNCHANGED <<crb, owner, stream, wlog, rlog>>
    /\ UNCHANGED svars

CallRead(p) ==
    /\ p \in Consumers
    /\ At(p, "idle")
    /\ Goto(p, Enter("read", 1), [Locals EXCEPT !.op = "read", !.len = 1, !.out = <<0>>])
    /\ UNCHANGED <<crb, owner, stream, wlog, rlog>>
    /\ UNCHANGED svars

CallReadMulti(p, len) ==
    /\ p \in Consumers
    /\ At(p, "idle")
    /\ Goto(p, Enter("read_multi", len),
            IF len = 0 THEN Locals
            ELSE [Locals EXCEPT !.op = "read_multi", !.len = len,
                                !.out = [i \in 1..len |-> 0]])
    /\ UNCHANGED <<crb, owner, stream, wlog, rlog>>
    /\ UNCHANGED svars

(* ------------------- the steps of lockfree_write ---------------------- *)

\* uint16_t next_head = (rb->head + 1) % rb->size;
LockfreeWrite_NextHead(p) ==
    /\ At(p, "w_next_head")
    /\ Goto(p, "w_full_check", [loc[p] EXCEPT !.next = U16((crb.head + 1) % crb.size)])
    /\ UNCHANGED <<crb, owner, stream, wlog, rlog>>
    /\ UNCHANGED svars

\* if (next_head == rb->tail) return false;
LockfreeWrite_FullCheck(p) ==
    /\ At(p, "w_full_check")
    /\ IF loc[p].next = crb.tail
       THEN Return(p)
       ELSE Goto(p, "w_load_head", loc[p])
    /\ UNCHANGED <<crb, owner, stream, wlog, rlog>>
    /\ UNCHANGED svars

\* A write that publishes the new head before it has stored the byte.
LockfreeWrite_LoadHead_publish(p) ==
    /\ At(p, "w_load_head")
    /\ crb' = [crb EXCEPT !.head = loc[p].next]
    /\ Goto(p, "w_store_slot", [loc[p] EXCEPT !.head = crb.head])
    /\ UNCHANGED <<owner, stream, wlog, rlog>>
    /\ UNCHANGED svars

\* rb->buffer[rb->head] = data;   the load of rb->head
LockfreeWrite_LoadHead(p) ==
    /\ At(p, "w_load_head")
    /\ Goto(p, "w_store_slot", [loc[p] EXCEPT !.head = crb.head])
    /\ UNCHANGED <<crb, owner, stream, wlog, rlog>>
    /\ UNCHANGED svars

\* rb->buffer[rb->head] = data;   the store to the slot
LockfreeWrite_StoreSlot(p) ==
    /\ At(p, "w_store_slot")
    /\ crb' = [crb EXCEPT !.mem[loc[p].head] = loc[p].data[1]]
    /\ Goto(p, "w_store_head", loc[p])
    /\ UNCHANGED <<owner, stream, wlog, rlog>>
    /\ UNCHANGED svars

\* A write that looks at head once more before it publishes, and reports
\* failure when another producer has moved it.
LockfreeWrite_StoreHead_checked(p) ==
    /\ At(p, "w_store_head")
    /\ IF crb.head # loc[p].head
       THEN UNCHANGED <<crb, wlog, stream>>
       ELSE /\ crb' = [crb EXCEPT !.head = loc[p].next]
            /\ wlog' = wlog \o loc[p].data
            /\ stream' = [stream EXCEPT ![p] = (@ + 1) % StreamMod]
    /\ Return(p)
    /\ UNCHANGED <<owner, rlog>>
    /\ UNCHANGED svars

\* rb->head = next_head; return true;
LockfreeWrite_StoreHead(p) ==
    /\ At(p, "w_store_head")
    /\ crb' = [crb EXCEPT !.head = loc[p].next]
    /\ wlog' = wlog \o loc[p].data
    /\ stream' = [stream EXCEPT ![p] = (@ + 1) % StreamMod]
    /\ Return(p)
    /\ UNCHANGED <<owner, rlog>>
    /\ UNCHANGED svars

(* -------------------- the steps of lockfree_read ---------------------- *)

\* if (rb->tail == rb->head): the operands are loaded in either order.
LockfreeRead_CompareFirst(p) ==
    /\ At(p, "r_compare_first")
    /\ \E first \in {"tail", "head"} :
         Goto(p, "r_compare_second",
              IF first = "tail"
              THEN [loc[p] EXCEPT !.first = first, !.tail = crb.tail]
              ELSE [loc[p] EXCEPT !.first = first, !.head = crb.head])
    /\ UNCHANGED <<crb, owner, stream, wlog, rlog>>
    /\ UNCHANGED svars

\* if (rb->tail == rb->head) return false;   the other operand, and the test
LockfreeRead_CompareSecond(p) ==
    /\ At(p, "r_compare_second")
    /\ LET tail == IF loc[p].first = "tail" THEN loc[p].tail ELSE crb.tail
           head == IF loc[p].first = "head" THEN loc[p].head ELSE crb.head
       IN  IF tail = head
           THEN Return(p)
           ELSE Goto(p, "r_load_tail", [loc[p] EXCEPT !.first = "none", !.head = 0, !.tail = 0])
    /\ UNCHANGED <<crb, owner, stream, wlog, rlog>>
    /\ UNCHANGED svars

\* *data = rb->buffer[rb->tail];   the load of rb->tail
LockfreeRead_LoadTail(p) ==
    /\ At(p, "r_load_tail")
    /\ Goto(p, "r_load_slot", [loc[p] EXCEPT !.tail = crb.tail])
    /\ UNCHANGED <<crb, owner, stream, wlog, rlog>>
    /\ UNCHANGED svars

\* *data = rb->buffer[rb->tail];   the load of the slot
LockfreeRead_LoadSlot(p) ==
    /\ At(p, "r_load_slot")
    /\ Goto(p, "r_reload_tail", [loc[p] EXCEPT !.out = <<crb.mem[loc[p].tail]>>])
    /\ UNCHANGED <<crb, owner, stream, wlog, rlog>>
    /\ UNCHANGED svars

\* rb->tail = (rb->tail + 1) % rb->size;   the load of rb->tail
LockfreeRead_ReloadTail(p) ==
    /\ At(p, "r_reload_tail")
    /\ Goto(p, "r_store_tail", [loc[p] EXCEPT !.next = U16((crb.tail + 1) % crb.size)])
    /\ UNCHANGED <<crb, owner, stream, wlog, rlog>>
    /\ UNCHANGED svars

\* rb->tail = (rb->tail + 1) % rb->size; return true;   the store
LockfreeRead_StoreTail(p) ==
    /\ At(p, "r_store_tail")
    /\ crb' = [crb EXCEPT !.tail = loc[p].next]
    /\ \E c \in {Cancel(wlog, rlog \o loc[p].out)} :
         /\ wlog' = c.accepted
         /\ rlog' = c.delivered
    /\ Return(p)
    /\ UNCHANGED <<owner, stream>>
    /\ UNCHANGED svars

(* ----------------- the steps of lockfree_write_multi ------------------ *)

\* lockfree_available_internal: uint16_t head = rb->head;
LockfreeWriteMulti_AvailHead(p) ==
    /\ At(p, "wm_avail_head")
    /\ Goto(p, "wm_avail_tail", [loc[p] EXCEPT !.head = crb.head])
    /\ UNCHANGED <<crb, owner, stream, wlog, rlog>>
    /\ UNCHANGED svars

\* A write_multi that, finding no free space, looks again until there is
\* some.
LockfreeWriteMulti_AvailTail_wait(p) ==
    /\ At(p, "wm_avail_tail")
    /\ LET free == lockfree_free_space_internal([crb EXCEPT !.head = loc[p].head])
           to_write == IF loc[p].len > free THEN free ELSE loc[p].len
       IN  IF to_write = 0
           THEN Goto(p, "wm_avail_head", [loc[p] EXCEPT !.head = 0])
           ELSE Goto(p, "wm_load_head", [loc[p] EXCEPT !.head = 0, !.n = to_write])
    /\ UNCHANGED <<crb, owner, stream, wlog, rlog>>
    /\ UNCHANGED svars

\* lockfree_available_internal: uint16_t tail = rb->tail; then
\* free = size - 1 - available; to_write = (len > free) ? free : len;
\* if (to_write == 0) return 0;
LockfreeWriteMulti_AvailTail(p) ==
    /\ At(p, "wm_avail_tail")
    /\ LET free == lockfree_free_space_internal([crb EXCEPT !.head = loc[p].head])
           to_write == IF loc[p].len > free THEN free ELSE loc[p].len
       IN  IF to_write = 0
           THEN Return(p)
           ELSE Goto(p, "wm_load_head", [loc[p] EXCEPT !.head = 0, !.n = to_write])
    /\ UNCHANGED <<crb, owner, stream, wlog, rlog>>
    /\ UNCHANGED svars

\* uint16_t head = rb->head; and the choice between one memcpy and two
LockfreeWriteMulti_LoadHead(p) ==
    /\ At(p, "wm_load_head")
    /\ LET head == crb.head
           size == crb.size
           to_write == loc[p].n
           first_chunk == U16(size - head)
           second_chunk == U16(to_write - first_chunk)
       IN  IF head + to_write <= size
           THEN Goto(p, "wm_copy",
                     [loc[p] EXCEPT !.head = head, !.todo = 0..(to_write - 1),
                                    !.next = U16((head + to_write) % size)])
           ELSE Goto(p, "wm_copy",
                     [loc[p] EXCEPT !.head = head, !.todo = 0..(first_chunk - 1),
                                    !.next = second_chunk])
    /\ UNCHANGED <<crb, owner, stream, wlog, rlog>>
    /\ UNCHANGED svars

\* memcpy: one byte of the chunk being copied, in any order within the
\* chunk; the second memcpy starts when the first has finished.
LockfreeWriteMulti_Copy(p) ==
    /\ At(p, "wm_copy")
    /\ \E k \in loc[p].todo :
         LET head == loc[p].head
             first_chunk == crb.size - head
             left == loc[p].todo \ {k}
         IN  /\ crb' = [crb EXCEPT !.mem[ChunkSlot(head, k, crb.size)] = loc[p].data[k + 1]]
             /\ IF left # {}
                THEN Goto(p, "wm_copy", [loc[p] EXCEPT !.todo = left])
                ELSE IF k < first_chunk /\ first_chunk < loc[p].n
                THEN Goto(p, "wm_copy", [loc[p] EXCEPT !.todo = first_chunk..(loc[p].n - 1)])
                ELSE Goto(p, "wm_store_head", [loc[p] EXCEPT !.todo = {}])
    /\ UNCHANGED <<owner, stream, wlog, rlog>>
    /\ UNCHANGED svars

\* rb->head = (head + to_write) % size;  or  rb->head = second_chunk;
\* return to_write;
LockfreeWriteMulti_StoreHead(p) ==
    /\ At(p, "wm_store_head")
    /\ crb' = [crb EXCEPT !.head = loc[p].next]
    /\ wlog' = wlog \o Take(loc[p].data, loc[p].n)
    /\ stream' = [stream EXCEPT ![p] = (@ + loc[p].n) % StreamMod]
    /\ Return(p)
    /\ UNCHANGED <<owner, rlog>>
    /\ UNCHANGED svars

(* ------------------ the steps of lockfree_read_multi ------------------ *)

\* lockfree_available_internal: uint16_t head = rb->head;
LockfreeReadMulti_AvailHead(p) ==
    /\ At(p, "rm_avail_head")
    /\ Goto(p, "rm_avail_tail", [loc[p] EXCEPT !.head = crb.head])
    /\ UNCHANGED <<crb, owner, stream, wlog, rlog>>
    /\ UNCHANGED svars

\* A read_multi that, finding no data, looks again until there is some.
LockfreeReadMulti_AvailTail_wait(p) ==
    /\ At(p, "rm_avail_tail")
    /\ LET available == lockfree_available_internal([crb EXCEPT !.head = loc[p].head])
           to_read == IF loc[p].len > available THEN available ELSE loc[p].len
       IN  IF to_read = 0
           THEN Goto(p, "rm_avail_head", [loc[p] EXCEPT !.head = 0])
           ELSE Goto(p, "rm_load_tail", [loc[p] EXCEPT !.head = 0, !.n = to_read])
    /\ UNCHANGED <<crb, owner, stream, wlog, rlog>>
    /\ UNCHANGED svars

\* lockfree_available_internal: uint16_t tail = rb->tail; then
\* to_read = (len > available) ? available : len; if (to_read == 0) return 0;
LockfreeReadMulti_AvailTail(p) ==
    /\ At(p, "rm_avail_tail")
    /\ LET available == lockfree_available_internal([crb EXCEPT !.head = loc[p].head])
           to_read == IF loc[p].len > available THEN available ELSE loc[p].len
       IN  IF to_read = 0
           THEN Return(p)
           ELSE Goto(p, "rm_load_tail", [loc[p] EXCEPT !.head = 0, !.n = to_read])
    /\ UNCHANGED <<crb, owner, stream, wlog, rlog>>
    /\ UNCHANGED svars

\* A read_multi that publishes the new tail before it copies the bytes
\* out.
LockfreeReadMulti_LoadTail_release(p) ==
    /\ At(p, "rm_load_tail")
    /\ LET tail == crb.tail
           size == crb.size
           to_read == loc[p].n
           first_chunk == U16(size - tail)
           second_chunk == U16(to_read - first_chunk)
       IN  IF tail + to_read <= size
           THEN /\ crb' = [crb EXCEPT !.tail = U16((tail + to_read) % size)]
                /\ Goto(p, "rm_copy",
                        [loc[p] EXCEPT !.tail = tail, !.todo = 0..(to_read - 1),
                                       !.next = U16((tail + to_read) % size)])
           ELSE /\ crb' = [crb EXCEPT !.tail = second_chunk]
                /\ Goto(p, "rm_copy",
                        [loc[p] EXCEPT !.tail = tail, !.todo = 0..(first_chunk - 1),
                                       !.next = second_chunk])
    /\ UNCHANGED <<owner, stream, wlog, rlog>>
    /\ UNCHANGED svars

\* uint16_t tail = rb->tail; and the choice between one memcpy and two
LockfreeReadMulti_LoadTail(p) ==
    /\ At(p, "rm_load_tail")
    /\ LET tail == crb.tail
           size == crb.size
           to_read == loc[p].n
           first_chunk == U16(size - tail)
           second_chunk == U16(to_read - first_chunk)
       IN  IF tail + to_read <= size
           THEN Goto(p, "rm_copy",
                     [loc[p] EXCEPT !.tail = tail, !.todo = 0..(to_read - 1),
                                    !.next = U16((tail + to_read) % size)])
           ELSE Goto(p, "rm_copy",
                     [loc[p] EXCEPT !.tail = tail, !.todo = 0..(first_chunk - 1),
                                    !.next = second_chunk])
    /\ UNCHANGED <<crb, owner, stream, wlog, rlog>>
    /\ UNCHANGED svars

\* memcpy: one byte of the chunk being copied out, in any order within the
\* chunk; the second memcpy starts when the first has finished.
LockfreeReadMulti_Copy(p) ==
    /\ At(p, "rm_copy")
    /\ \E k \in loc[p].todo :
         LET tail == loc[p].tail
             first_chunk == crb.size - tail
             left == loc[p].todo \ {k}
             out == [loc[p].out EXCEPT ![k + 1] = crb.mem[ChunkSlot(tail, k, crb.size)]]
         IN  IF left # {}
             THEN Goto(p, "rm_copy", [loc[p] EXCEPT !.todo = left, !.out = out])
             ELSE IF k < first_chunk /\ first_chunk < loc[p].n
             THEN Goto(p, "rm_copy",
                       [loc[p] EXCEPT !.todo = first_chunk..(loc[p].n - 1), !.out = out])
             ELSE Goto(p, "rm_store_tail", [loc[p] EXCEPT !.todo = {}, !.out = out])
    /\ UNCHANGED <<crb, owner, stream, wlog, rlog>>
    /\ UNCHANGED svars

\* rb->tail = (tail + to_read) % size;  or  rb->tail = second_chunk;
\* return to_read;
LockfreeReadMulti_StoreTail(p) ==
    /\ At(p, "rm_store_tail")
    /\ crb' = [crb EXCEPT !.tail = loc[p].next]
    /\ \E c \in {Cancel(wlog, rlog \o Take(loc[p].out, loc[p].n))} :
         /\ wlog' = c.accepted
         /\ rlog' = c.delivered
    /\ Return(p)
    /\ UNCHANGED <<owner, stream>>
    /\ UNCHANGED svars

(* --------------- the steps of the mutex wrappers ---------------------- *)

\* A lock that lets a task in while another holds it.
Mutex_Lock_open(p) ==
    /\ At(p, "m_lock")
    /\ owner' = p
    /\ Goto(p, CoreEntry(loc[p].op), loc[p])
    /\ UNCHANGED <<crb, stream, wlog, rlog>>
    /\ UNCHANGED svars

\* MUTEX_LOCK(mutex): the task waits until no task holds the mutex, takes
\* it, and calls the lock-free operation.
Mutex_Lock(p) ==
    /\ At(p, "m_lock")
    /\ owner = "none"
    /\ owner' = p
    /\ Goto(p, CoreEntry(loc[p].op), loc[p])
    /\ UNCHANGED <<crb, stream, wlog, rlog>>
    /\ UNCHANGED svars

\* A wrapper that returns without MUTEX_UNLOCK(mutex).
Mutex_Unlock_keep(p) ==
    /\ At(p, "m_unlock")
    /\ Goto(p, "idle", Locals)
    /\ UNCHANGED <<crb, owner, stream, wlog, rlog>>
    /\ UNCHANGED svars

\* MUTEX_UNLOCK(mutex); return ret;
Mutex_Unlock(p) ==
    /\ At(p, "m_unlock")
    /\ owner' = "none"
    /\ Goto(p, "idle", Locals)
    /\ UNCHANGED <<crb, stream, wlog, rlog>>
    /\ UNCHANGED svars

(* ------------- the critical-section wrappers, step by step ------------ *)

\* The first half of IRQ_SAVE(state): state = __get_PRIMASK() (state = SREG
\* on AVR), and the whole of it on the default branch: state = 0.  mask
\* records the interrupt mask the call found.
Irq_GetState(p) ==
    /\ At(p, "i_get_state")
    /\ Goto(p, "i_disable",
            [loc[p] EXCEPT !.state = IF platform = "default"
                                     THEN IRQ_SAVE_default(primask).state
                                     ELSE IRQ_SAVE(primask).state,
                           !.mask = primask])
    /\ UNCHANGED <<crb, owner, stream, wlog, rlog>>
    /\ UNCHANGED svars

\* The second half of IRQ_SAVE(state): __disable_irq() (cli() on AVR), and
\* nothing on the default branch; then the call of the lock-free operation.
Irq_Disable(p) ==
    /\ At(p, "i_disable")
    /\ primask' = IF platform = "default"
                  THEN IRQ_SAVE_default(primask).primask
                  ELSE IRQ_SAVE(primask).primask
    /\ Goto(p, CoreEntry(loc[p].op), loc[p])
    /\ UNCHANGED <<crb, owner, stream, wlog, rlog>>
    /\ UNCHANGED <<rbs, mtx, op, rets, dsts, accepted, delivered, fault, platform,
                   registry>>

\* IRQ_RESTORE(state); return ret;
Irq_Restore(p) ==
    /\ At(p, "i_restore")
    /\ primask' = IF platform = "default"
                  THEN IRQ_RESTORE_default(loc[p].state, primask)
                  ELSE IRQ_RESTORE(loc[p].state)
    /\ Goto(p, "idle", Locals)
    /\ UNCHANGED <<crb, owner, stream, wlog, rlog>>
    /\ UNCHANGED <<rbs, mtx, op, rets, dsts, accepted, delivered, fault, platform,
                   registry>>

\* The main loop, between two calls, disables interrupt delivery itself, or
\* enables it again.
IRQ_DISABLE(p) ==
    /\ p = "main"
    /\ At(p, "idle")
    /\ primask = 0
    /\ primask' = 1
    /\ UNCHANGED cvars
    /\ UNCHANGED <<rbs, mtx, op, rets, dsts, accepted, delivered, fault, platform,
                   registry>>

IRQ_ENABLE(p) ==
    /\ p = "main"
    /\ At(p, "idle")
    /\ primask = 1
    /\ primask' = 0
    /\ UNCHANGED cvars
    /\ UNCHANGED <<rbs, mtx, op, rets, dsts, accepted, delivered, fault, platform,
                   registry>>

(* ------------------------- the concurrent runs ------------------------ *)

Call(p) ==
    \/ CallWrite(p)
    \/ \E len \in Bursts : CallWriteMulti(p, len)
    \/ CallRead(p)
    \/ \E len \in Bursts : CallReadMulti(p, len)

CoreStep(p) ==
    \/ LockfreeWrite_NextHead(p)
    \/ LockfreeWrite_FullCheck(p)
    \/ LockfreeWrite_LoadHead(p)
    \/ LockfreeWrite_StoreSlot(p)
    \/ LockfreeWrite_StoreHead(p)
    \/ LockfreeRead_CompareFirst(p)
    \/ LockfreeRead_CompareSecond(p)
    \/ LockfreeRead_LoadTail(p)
    \/ LockfreeRead_LoadSlot(p)
    \/ LockfreeRead_ReloadTail(p)
    \/ LockfreeRead_StoreTail(p)
    \/ LockfreeWriteMulti_AvailHead(p)
    \/ LockfreeWriteMulti_AvailTail(p)
    \/ LockfreeWriteMulti_LoadHead(p)
    \/ LockfreeWriteMulti_Copy(p)
    \/ LockfreeWriteMulti_StoreHead(p)
    \/ LockfreeReadMulti_AvailHead(p)
    \/ LockfreeReadMulti_AvailTail(p)
    \/ LockfreeReadMulti_LoadTail(p)
    \/ LockfreeReadMulti_Copy(p)
    \/ LockfreeReadMulti_StoreTail(p)

WrapperStep(p) ==
    \/ Mutex_Lock(p)
    \/ Mutex_Unlock(p)

\* One producer and one consumer on a lock-free buffer.
InitSPSC ==
    /\ ConstructShared("lockfree", {"p1", "c1"})
    /\ NoTables
    /\ platform = "cortex_m"

NextSPSC == \E p \in Producers \cup Consumers : Call(p) \/ CoreStep(p)

SpecSPSC == InitSPSC /\ [][NextSPSC]_vars

\* Two tasks, each both a producer and a consumer, on a mutex-guarded buffer.
InitMutex ==
    /\ ConstructShared("mutex", {"t1", "t2"})
    /\ NoTables
    /\ platform = "cortex_m"

NextMutex ==
    \E p \in Producers \cup Consumers : Call(p) \/ WrapperStep(p) \/ CoreStep(p)

SpecMutex == InitMutex /\ [][NextMutex]_vars

\* The tasks of the mutex-guarded runs.
MutexTasks == {"t1", "t2"}

\* The mutex-guarded runs on the smallest buffer.
InitMutexFair == InitMutex /\ crb.size = RING_BUFFER_MIN_SIZE

\* Those runs under a scheduler that lets every task that can take a step
\* take one, and a lock that is fair: a task waiting in
\* xSemaphoreTake(m, portMAX_DELAY) gets the mutex if it is free again and
\* again.
SpecMutexFair ==
    /\ InitMutexFair
    /\ [][NextMutex]_vars
    /\ \A p \in MutexTasks : WF_vars(CoreStep(p) \/ Mutex_Unlock(p))
    /\ \A p \in MutexTasks : SF_vars(Mutex_Lock(p))

IrqStep(p) ==
    \/ Irq_GetState(p)
    \/ Irq_Disable(p)
    \/ Irq_Restore(p)
    \/ IRQ_DISABLE(p)
    \/ IRQ_ENABLE(p)

\* The main loop, both a producer and a consumer, and one interrupt handler,
\* a producer, on a critical-section buffer, in a build for any platform; the
\* builds of the default branch are followed on the smallest buffer.
InitIrq ==
    /\ ConstructShared("disable_irq", {"main", "isr"})
    /\ NoTables
    /\ platform \in Platforms
    /\ platform = "default" => crb.size = RING_BUFFER_MIN_SIZE

NextIrq ==
    \E p \in Producers \cup Consumers : Call(p) \/ IrqStep(p) \/ CoreStep(p)

SpecIrq == InitIrq /\ [][NextIrq]_vars

\* The runs of the two strategies that take no lock: one producer and one
\* consumer on a lock-free buffer, or the main loop and an interrupt handler
\* on a critical-section buffer.
InitNoLock == InitSPSC \/ InitIrq

SpecNoLock == InitNoLock /\ [][NextIrq]_vars

\* Two producers on a lock-free buffer, the use the file header of
\* ring_buffer_lockfree.c warns against, calling write and write_multi until
\* the buffer is full.
InitRace ==
    /\ ConstructShared("lockfree", {"p1", "p2"})
    /\ NoTables
    /\ platform = "cortex_m"

WriterStep(p) ==
    \/ LockfreeWrite_NextHead(p)
    \/ LockfreeWrite_FullCheck(p)
    \/ LockfreeWrite_LoadHead(p)
    \/ LockfreeWrite_StoreSlot(p)
    \/ LockfreeWrite_StoreHead(p)
    \/ LockfreeWriteMulti_AvailHead(p)
    \/ LockfreeWriteMulti_AvailTail(p)
    \/ LockfreeWriteMulti_LoadHead(p)
    \/ LockfreeWriteMulti_Copy(p)
    \/ LockfreeWriteMulti_StoreHead(p)

NextRace ==
    \E p \in Producers :
        \/ CallWrite(p)
        \/ \E len \in Bursts : CallWriteMulti(p, len)
        \/ WriterStep(p)

SpecRace == InitRace /\ [][NextRace]_vars

(* ====================== the registry, on its own ====================== *)

\* The types a caller passes: the built-in ones, and more custom ones than
\* the registry has room for.
Types == 0..(RING_BUFFER_TYPE_CUSTOM_BASE + RegistryCapacity)

\* The operation tables a caller registers.
Descriptors == {[table |-> "my_custom_ops"], [table |-> "other_custom_ops"]}

InitRegistry ==
    /\ NoTables
    /\ NoTasks
    /\ platform = "cortex_m"

Register(type, ops) ==
    /\ \E r \in {ring_buffer_register_ops(registry, type, ops)} :
         /\ registry' = r.registry
         /\ rets' = [x \in {"register"} |-> r.ret]
    /\ op' = [name |-> "register", type |-> type, ops |-> ops]
    /\ UNCHANGED <<rbs, primask, mtx, dsts, accepted, delivered, fault, platform>>
    /\ UNCHANGED cvars

NextRegistry == \E type \in Types, ops \in Descriptors : Register(type, ops)

SpecRegistry == InitRegistry /\ [][NextRegistry]_vars

(* ======== the index arithmetic at the width of the target's int ======= *)
(* The operands of the index computations are uint16_t.  Where int has    *)
(* 32 bits (the ARM targets) they are promoted to int and the result is   *)
(* exact; where int has 16 bits (AVR) they are promoted to unsigned int   *)
(* and the result is reduced modulo 2^16.  A result assigned to a         *)
(* uint16_t variable or returned as uint16_t is reduced modulo 2^16 on    *)
(* every target.                                                          *)

\* The value of an arithmetic expression over uint16_t operands whose exact
\* value is x, on the given target.
Promoted(x, target) == IF target = "avr" THEN x % UINT16_RANGE ELSE x

lockfree_available_internal_int(rb, target) ==
    LET head == rb.head
        tail == rb.tail
    IN  IF head >= tail THEN U16(Promoted(head - tail, target))
        ELSE U16(Promoted(Promoted(rb.size - tail, target) + head, target))

lockfree_free_space_internal_int(rb, target) ==
    U16(Promoted(Promoted(rb.size - 1, target)
                    - lockfree_available_internal_int(rb, target), target))

\* lockfree_write: ret is the success of the call, head the index it
\* publishes.
lockfree_write_int(rb, target) ==
    LET next_head == U16(Promoted(rb.head + 1, target) % rb.size)
    IN  IF next_head = rb.tail THEN [ret |-> FALSE, head |-> rb.head]
        ELSE [ret |-> TRUE, head |-> next_head]

\* lockfree_write_multi: ret is the count it returns, copies the <<slot,
\* count>> arguments of its memcpy calls, head the index it publishes.
lockfree_write_multi_int(rb, len, target) ==
    IF len = 0 THEN [ret |-> 0, copies |-> <<>>, head |-> rb.head]
    ELSE LET free == lockfree_free_space_internal_int(rb, target)
             to_write == IF len > free THEN free ELSE len
             head == rb.head
             size == rb.size
         IN  IF to_write = 0 THEN [ret |-> 0, copies |-> <<>>, head |-> rb.head]
             ELSE IF Promoted(head + to_write, target) <= size
             THEN [ret |-> to_write,
                   copies |-> << <<head, to_write>> >>,
                   head |-> U16(Promoted(head + to_write, target) % size)]
             ELSE LET first_chunk == U16(Promoted(size - head, target))
                      second_chunk == U16(Promoted(to_write - first_chunk, target))
                  IN  [ret |-> to_write,
                       copies |-> << <<head, first_chunk>>, <<0, second_chunk>> >>,
                       head |-> second_chunk]

\* lockfree_read_multi: the same with tail.
lockfree_read_multi_int(rb, len, target) ==
    IF len = 0 THEN [ret |-> 0, copies |-> <<>>, tail |-> rb.tail]
    ELSE LET available == lockfree_available_internal_int(rb, target)
             to_read == IF len > available THEN available ELSE len
             tail == rb.tail
             size == rb.size
         IN  IF to_read = 0 THEN [ret |-> 0, copies |-> <<>>, tail |-> rb.tail]
             ELSE IF Promoted(tail + to_read, target) <= size
             THEN [ret |-> to_read,
                   copies |-> << <<tail, to_read>> >>,
                   tail |-> U16(Promoted(tail + to_read, target) % size)]
             ELSE LET first_chunk == U16(Promoted(size - tail, target))
                      second_chunk == U16(Promoted(to_read - first_chunk, target))
                  IN  [ret |-> to_read,
                       copies |-> << <<tail, first_chunk>>, <<0, second_chunk>> >>,
                       tail |-> second_chunk]

\* One call on a buffer of any size the 16-bit field can hold: the sizes,
\* indices and lengths at the ends and in the middle of the 16-bit range,
\* on a target with a 32-bit int and on one with a 16-bit int.  op holds
\* the indices and the argument of the call, rets its result.
InitWidth ==
    LET half == UINT16_RANGE \div 2
        sizes == {RING_BUFFER_MIN_SIZE, RING_BUFFER_MIN_SIZE + 1, half - 1, half,
                  half + 1, UINT16_RANGE - 2, UINT16_RANGE - 1}
        lens == {0, 1, 2, half - 1, half, UINT16_RANGE - 1}
    IN  /\ \E size \in sizes :
             \E head, tail \in {0, 1, size \div 2, size - 2, size - 1} :
               \E len \in lens :
                  op = [name |-> "none", size |-> size, head |-> head, tail |-> tail,
                        len |-> len]
        /\ platform \in {"cortex_m", "avr"}
        /\ rbs = <<>>
        /\ primask = 0
        /\ mtx = "unlocked"
        /\ rets = <<>>
        /\ dsts = <<>>
        /\ accepted = <<>>
        /\ delivered = <<>>
        /\ fault = "none"
        /\ registry = <<>>
        /\ NoTasks

WidthWrite ==
    /\ rets' = [x \in {"result"} |-> lockfree_write_int(op, platform)]
    /\ op' = [op EXCEPT !.name = "write"]
    /\ UNCHANGED <<rbs, primask, mtx, dsts, accepted, delivered, fault, platform,
                   registry>>
    /\ UNCHANGED cvars

WidthWriteMulti ==
    /\ rets' = [x \in {"result"} |-> lockfree_write_multi_int(op, op.len, platform)]
    /\ op' = [op EXCEPT !.name = "write_multi"]
    /\ UNCHANGED <<rbs, primask, mtx, dsts, accepted, delivered, fault, platform,
                   registry>>
    /\ UNCHANGED cvars

WidthReadMulti ==
    /\ rets' = [x \in {"result"} |-> lockfree_read_multi_int(op, op.len, platform)]
    /\ op' = [op EXCEPT !.name = "read_multi"]
    /\ UNCHANGED <<rbs, primask, mtx, dsts, accepted, delivered, fault, platform,
                   registry>>
    /\ UNCHANGED cvars

\* available and free_space: o names the query.
WidthQuery(o) ==
    /\ rets' = [x \in {"result"} |->
                  IF o = "available"
                  THEN lockfree_available_internal_int(op, platform)
                  ELSE lockfree_free_space_internal_int(op, platform)]
    /\ op' = [op EXCEPT !.name = o]
    /\ UNCHANGED <<rbs, primask, mtx, dsts, accepted, delivered, fault, platform,
                   registry>>
    /\ UNCHANGED cvars

NextWidth ==
    \/ WidthWrite
    \/ WidthWriteMulti
    \/ WidthReadMulti
    \/ \E o \in {"available", "free_space"} : WidthQuery(o)

SpecWidth == InitWidth /\ [][NextWidth]_vars

(* ====================== properties of Spec ============================ *)

\* The number of bytes a buffer holds, from its indices alone.
Occupancy(rb) == (rb.head - rb.tail + rb.size) % rb.size

\* The bytes a buffer holds, oldest first: the slots from tail up to head.
Held(rb) == [k \in 1..Occupancy(rb) |-> rb.mem[(rb.tail + k - 1) % rb.size]]

\* The bytes accepted and not yet delivered, by count.
Unread(t) == Len(accepted[t]) - Len(delivered[t])

\* What is left of a sequence after its first n elements.
Drop(s, n) == SubSeq(s, n + 1, Len(s))

\* C1: without concurrency, the bytes the reads have returned, in order,
\* followed by the bytes the buffer still holds, oldest first, are exactly the
\* bytes the writes accepted: reads deliver a prefix of what was written, and
\* the buffer holds the unread suffix, however often the indices have wrapped.
C1_FifoSequential ==
    \A t \in Bound : delivered[t] \o Held(rbs[t]) = accepted[t]

\* A bulk read has returned the byte of the last slot, taking tail round to
\* slot 0 (tail 2 -> 0 in a buffer of size 3), and has left one byte held,
\* written after head had wrapped.
C1_Witness ==
    \E t \in Bound :
        /\ op.name = "read_multi" /\ rets[t] = 1
        /\ rbs[t].size = 3 /\ rbs[t].tail = 0 /\ rbs[t].head = 1
        /\ accepted[t] # <<>>

\* C4: after every step of a sequence of operations, the critical-section and
\* mutex tables have returned what the lock-free table returned (the bytes a
\* read delivered included) and left the same head, tail and storage.
C4_StrategyEquivalence ==
    "lockfree" \in Bound =>
        \A t \in Bound :
            /\ rets[t] = rets["lockfree"]
            /\ dsts[t] = dsts["lockfree"]
            /\ rbs[t].head = rbs["lockfree"].head
            /\ rbs[t].tail = rbs["lockfree"].tail
            /\ rbs[t].mem = rbs["lockfree"].mem
            /\ rbs[t].size = rbs["lockfree"].size

\* The three strategies have each refused a single-byte write on a full,
\* wrapped buffer.
C4_Witness ==
    /\ Bound = Strategies
    /\ op.name = "write"
    /\ \A t \in Bound : rets[t] = FALSE /\ rbs[t].head < rbs[t].tail

\* C5: a buffer never holds more than size - 1 accepted, unread bytes, and a
\* single-byte write fails only when it holds exactly size - 1: from empty,
\* size - 1 consecutive writes succeed and the next one fails.
C5_UsableCapacity ==
    \A t \in Bound :
        /\ Unread(t) <= rbs[t].size - 1
        /\ Occupancy(rbs[t]) = Unread(t)
        /\ (op.name = "write" /\ ~rets[t]) => Unread(t) = rbs[t].size - 1

\* A buffer of size 2 holds one byte and has refused a second.
C5_Witness ==
    \E t \in Bound :
        /\ rbs[t].size = 2 /\ op.name = "write" /\ rets[t] = FALSE
        /\ Len(accepted[t]) = 1 /\ delivered[t] = <<>>

\* C6: in every state the four status queries agree with the indices and with
\* each other.
C6_StatusQueriesAgree ==
    \A t \in Bound :
        LET rb == rbs[t]
            avail == ops_available(t, rb, primask, mtx).ret
            free == ops_free_space(t, rb, primask, mtx).ret
            empty == ops_is_empty(t, rb, primask, mtx).ret
            full == ops_is_full(t, rb, primask, mtx).ret
        IN  /\ avail = (rb.head - rb.tail + rb.size) % rb.size
            /\ avail + free = rb.size - 1
            /\ empty <=> (avail = 0)
            /\ empty <=> (rb.head = rb.tail)
            /\ full <=> (free = 0)
            /\ full <=> ((rb.head + 1) % rb.size = rb.tail)

\* is_full() has answered true on a buffer whose head has wrapped behind its
\* tail.
C6_Witness ==
    \E t \in Bound :
        /\ op.name = "is_full" /\ rets[t] = TRUE
        /\ rbs[t].head < rbs[t].tail /\ rbs[t].size = 3

\* C7: write_multi(data, len) returns min(len, free_space()), appends exactly
\* that many leading bytes of data to the bytes held, and so raises the
\* occupancy by what it returns; asked for more than the free space, it leaves
\* the buffer full.
C7_BulkWritePartial ==
    [][op'.name = "write_multi" =>
         \A t \in Bound :
             \A free \in {ops_free_space(t, rbs[t], primask, mtx).ret} :
                 /\ rets'[t] = Min(op'.len, free)
                 /\ Held(rbs'[t]) = Held(rbs[t]) \o Take(op'.data, rets'[t])
                 /\ Occupancy(rbs'[t]) = Occupancy(rbs[t]) + rets'[t]
                 /\ ops_available(t, rbs'[t], primask', mtx').ret
                      = ops_available(t, rbs[t], primask, mtx).ret + rets'[t]
                 /\ (op'.len > free => ops_is_full(t, rbs'[t], primask', mtx').ret)
    ]_vars

\* A write of two bytes into a free space of one has returned 1, taken head
\* round to slot 0 and left the buffer full.
C7_Witness ==
    \E t \in Bound :
        /\ op.name = "write_multi" /\ op.len = 2 /\ rets[t] = 1
        /\ rbs[t].size = 3 /\ rbs[t].head = 0 /\ rbs[t].tail = 1

\* C8: read_multi(dest, len) returns min(len, available()), the bytes it
\* returns are the oldest bytes held, in order, the occupancy falls by what it
\* returns, and the bytes it did not take stay held in their order.
C8_BulkReadSymmetric ==
    [][op'.name = "read_multi" =>
         \A t \in Bound :
             LET avail == ops_available(t, rbs[t], primask, mtx).ret
                 n == Min(op'.len, avail)
             IN  /\ rets'[t] = n
                 /\ Take(dsts'[t], n) = Take(Held(rbs[t]), n)
                 /\ Occupancy(rbs'[t]) = Occupancy(rbs[t]) - rets'[t]
                 /\ Held(rbs'[t]) = Drop(Held(rbs[t]), n)
    ]_vars

\* A read of one byte out of two held across the end of storage.
C8_Witness ==
    \E t \in Bound :
        /\ op.name = "read_multi" /\ op.len = 1 /\ rets[t] = 1
        /\ rbs[t].size = 3 /\ rbs[t].tail = 0 /\ rbs[t].head = 1

\* C9: write(data) on a full buffer returns false and changes neither head,
\* tail nor storage; on any other buffer it returns true, stores data at the
\* old head and sets head to (head + 1) mod size.
C9_WriteFullNoMutation ==
    [][op'.name = "write" =>
         \A t \in Bound :
             IF (rbs[t].head + 1) % rbs[t].size = rbs[t].tail
             THEN /\ rets'[t] = FALSE
                  /\ rbs'[t] = rbs[t]
             ELSE /\ rets'[t] = TRUE
                  /\ rbs'[t].mem[rbs[t].head] = op'.data[1]
                  /\ rbs'[t].head = (rbs[t].head + 1) % rbs[t].size
    ]_vars

\* A write of 1 has been refused by a full buffer whose slot at head holds 0.
C9_Witness ==
    \E t \in Bound :
        /\ op.name = "write" /\ op.data = <<1>> /\ rets[t] = FALSE
        /\ rbs[t].size = 3 /\ (rbs[t].head + 1) % 3 = rbs[t].tail
        /\ rbs[t].mem[rbs[t].head] = 0

\* C10: read(dest) on an empty buffer returns false and changes neither head,
\* tail, storage nor the destination; on any other buffer it returns true with
\* the byte at the old tail and sets tail to (tail + 1) mod size.
C10_ReadEmptyNoMutation ==
    [][op'.name = "read" =>
         \A t \in Bound :
             IF rbs[t].head = rbs[t].tail
             THEN /\ rets'[t] = FALSE
                  /\ rbs'[t] = rbs[t]
                  /\ dsts'[t] = DestBlank
             ELSE /\ rets'[t] = TRUE
                  /\ dsts'[t][1] = rbs[t].mem[rbs[t].tail]
                  /\ rbs'[t].tail = (rbs[t].tail + 1) % rbs[t].size
    ]_vars

\* A read has been refused by an empty buffer whose slot at tail still holds
\* a stale 1, and the destination is as the caller passed it.
C10_Witness ==
    \E t \in Bound :
        /\ op.name = "read" /\ rets[t] = FALSE
        /\ rbs[t].head = rbs[t].tail /\ rbs[t].mem[rbs[t].tail] = 1
        /\ dsts[t] = DestBlank

(* ============== properties of SpecSPSC and SpecMutex ================== *)

\* The tasks inside a core operation of the shared buffer.
InCore == {p \in Tasks : pc[p] \in CoreLabels}

\* C2: one producer and one consumer on a lock-free buffer, interleaved at
\* every load and store of head, tail and a slot: at every moment the bytes
\* the reads have released, in order, followed by the bytes between tail and
\* head, are exactly the bytes the successful writes published, in the order
\* written; so no byte is lost, duplicated, reordered, or read before it was
\* stored.
C2_FifoInterleaved ==
    (crb # NULL /\ crb.ops = "lockfree") => rlog \o Held(crb) = wlog

\* The consumer has released bytes, head has wrapped past the end of the
\* storage, the buffer holds bytes, and a write by the producer stands
\* between its store to the slot and its store to head.
C2_Witness ==
    /\ crb # NULL
    /\ crb.ops = "lockfree"
    /\ pc["p1"] = "w_store_head"
    /\ pc["c1"] = "idle"
    /\ crb.tail # 0
    /\ crb.head < crb.tail
    /\ wlog # <<>>

\* The bytes of producer p among the bytes accepted and not yet returned, in
\* the order the buffer will return them.
Own(p) == SelectSeq(wlog, LAMBDA v : Tag(p) < v /\ v <= Tag(p) + StreamMod)

\* The last m bytes producer p has had accepted, in the order p wrote them.
LastWritten(p, m) ==
    [i \in 1..m |-> Tag(p) + 1 + ((stream[p] - m + i - 1) % StreamMod)]

\* C3: under the mutex strategy, with several tasks writing and reading, at
\* most one task is inside a delegated core operation and that task holds
\* the mutex; the bytes the reads have returned, in order, followed by the
\* bytes the buffer holds, are exactly the bytes the writes accepted, in the
\* order the lock admitted the writes: none is lost, none is returned twice;
\* and the bytes of one producer still to be returned stand in the order that
\* producer wrote them.
C3_MutexSerialises ==
    (crb # NULL /\ crb.ops = "mutex") =>
        /\ Cardinality(InCore) <= 1
        /\ \A p \in InCore : owner = p
        /\ rlog \o Held(crb) = wlog
        /\ \A p \in Tasks \cap Producers : Own(p) = LastWritten(p, Len(Own(p)))

\* A task is inside a write, holding the mutex, about to publish its byte,
\* while the other waits for the mutex with a read_multi; head has wrapped
\* and the buffer holds a byte the waiting task wrote.
C3_Witness ==
    /\ crb # NULL
    /\ crb.ops = "mutex"
    /\ pc["t1"] = "w_store_head"
    /\ pc["t2"] = "m_lock"
    /\ loc["t2"].op = "read_multi"
    /\ owner = "t1"
    /\ crb.head < crb.tail
    /\ Own("t2") # <<>>

\* C11: in a state where a single-byte write fails because the buffer is full
\* (the write just refused, or one refused earlier with nothing but queries
\* since), a step that is one successful single-byte read leads to a state
\* where the same write, of the same byte, succeeds.
C11_ReadUnblocksWrite ==
    [][\A t \in Bound :
         /\ (op.name = "write" /\ rets[t] = FALSE)
               => ~ops_write(t, rbs[t], op.data[1], primask, mtx).ret
         /\ \A d \in Bytes :
               (/\ ~ops_write(t, rbs[t], d, primask, mtx).ret
                /\ op'.name = "read"
                /\ rets'[t] = TRUE)
               => ops_write(t, rbs'[t], d, primask', mtx').ret]_vars

\* A single-byte read has just succeeded on a buffer of size 3 that was full
\* and wrapped: one slot is free again, one byte is still held.
C11_Witness ==
    \E t \in Bound :
        /\ op.name = "read" /\ rets[t] = TRUE
        /\ rbs[t].size = 3
        /\ Occupancy(rbs[t]) = rbs[t].size - 2
        /\ rbs[t].head = 0 /\ rbs[t].tail = 2
        /\ ops_write(t, rbs[t], 1, primask, mtx).ret

\* C13: in the state clear() leaves, whatever the buffer held before, is_empty()
\* is true, available() is 0 and free_space() is size - 1, the buffer holds no
\* byte and none of the accepted bytes is still owed to a reader; and from then
\* on, as in every state, what the reads return followed by what the buffer
\* holds is what the writes accepted since.
C13_ClearEmpties ==
    \A t \in Bound :
        /\ op.name = "clear" =>
              /\ ops_is_empty(t, rbs[t], primask, mtx).ret = TRUE
              /\ ops_is_full(t, rbs[t], primask, mtx).ret = FALSE
              /\ ops_available(t, rbs[t], primask, mtx).ret = 0
              /\ ops_free_space(t, rbs[t], primask, mtx).ret = rbs[t].size - 1
              /\ Held(rbs[t]) = <<>>
              /\ accepted[t] = delivered[t]
        /\ accepted[t] = delivered[t] \o Held(rbs[t])
        /\ (accepted[t] = delivered[t] /\ op.name \in {"read", "read_multi"})
              => ops_is_empty(t, rbs[t], primask, mtx).ret = TRUE

\* clear() has just emptied a buffer of size 3 whose head had wrapped round to
\* slot 0 and whose slots all carry bytes written before: the lock-free clear
\* left tail at head.
C13_Witness ==
    /\ op.name = "clear"
    /\ "lockfree" \in Bound
    /\ rbs["lockfree"].size = 3
    /\ rbs["lockfree"].head = 0
    /\ rbs["lockfree"].tail = 0
    /\ \A i \in 0..2 : rbs["lockfree"].mem[i] = 1

(* ====================== properties of SpecLife ======================== *)

\* No field of rb makes it an invalid buffer.
Valid(rb) == rb.buffer # NULL /\ rb.size >= RING_BUFFER_MIN_SIZE

\* C12: in the state a construction with non-null storage and a capacity
\* c >= 2 leaves (the lock, for the mutex strategy, having been created), the
\* call has returned true, head = 0, tail = 0, is_empty() is true, is_full()
\* false, available() 0 and free_space() c - 1, whatever the object held
\* before: zeroes, stale values, or a buffer in use.
C12_ConstructedEmpty ==
    \A t \in Bound :
        (/\ op.name = "create"
         /\ op.ptr = "valid"
         /\ op.len >= RING_BUFFER_MIN_SIZE
         /\ (t = "mutex" => op.created))
        => /\ rets[t] = TRUE
           /\ rbs[t].buffer = STORAGE
           /\ rbs[t].size = op.len
           /\ rbs[t].head = 0
           /\ rbs[t].tail = 0
           /\ \A o \in Queries : ops_undefined(t, o, rbs[t], NULL, 0, mtx) = "none"
           /\ ops_is_empty(t, rbs[t], primask, mtx).ret = TRUE
           /\ ops_is_full(t, rbs[t], primask, mtx).ret = FALSE
           /\ ops_available(t, rbs[t], primask, mtx).ret = 0
           /\ ops_free_space(t, rbs[t], primask, mtx).ret = op.len - 1

\* ring_buffer_init has just succeeded with capacity 3 on an object that had
\* been a buffer in use: its storage still carries a byte written before.
C12_Witness ==
    /\ op.name = "create"
    /\ Bound = {"ring_buffer"}
    /\ rets["ring_buffer"] = TRUE
    /\ rbs["ring_buffer"].size = 3
    /\ rbs["ring_buffer"].mem[1] = 1
    /\ rbs["ring_buffer"].head = 0

\* The nine operations of an operation table.
NineOps == {"write", "read", "write_multi", "read_multi", "clear"} \cup Queries

\* The step is a call of one of the nine operations through table t with an
\* argument the operation is to refuse: a null rb, an rb that is not a valid
\* buffer (null storage, or size below 2), a null data pointer, or len = 0.
RefusedCall(t) ==
    /\ op'.name \in NineOps
    /\ \/ op'.rb = "NULL"
       \/ ~Valid(rbs[t])
       \/ op'.ptr = "NULL"
       \/ (op'.name \in {"write_multi", "read_multi"} /\ op'.len = 0)

\* What an operation returns when nothing has happened: false, 0, and true
\* for is_empty (clear returns nothing).
Nothing(name) ==
    CASE name \in {"write", "read", "is_full"} -> FALSE
      [] name \in {"write_multi", "read_multi", "available", "free_space", "clear"} -> 0
      [] name = "is_empty" -> TRUE

\* C14: every call of one of the nine operations on an invalid buffer, with a
\* null data pointer or with len = 0 returns the nothing-happened result,
\* changes no field of the object, no byte of the storage and no byte of the
\* destination, and executes no undefined operation (no modulo by a zero
\* size, no access through a null storage pointer).
C14_NoPanicPath ==
    [][\A t \in Bound :
         RefusedCall(t) =>
             /\ fault' = "none"
             /\ rets'[t] = Nothing(op'.name)
             /\ rbs'[t] = rbs[t]
             /\ dsts'[t] = IF op'.name \in {"read", "read_multi"} /\ op'.ptr = "valid"
                           THEN DestBlank
                           ELSE dsts[t]]_vars

\* C15: is_empty() called with a null rb, or on an object whose size is below
\* 2, whatever its head and tail, has returned true, and is_full() has
\* returned false, neither having executed an undefined operation.
C15_FailSafeStatus ==
    \A t \in Bound :
        (/\ op.name \in {"is_empty", "is_full"}
         /\ (op.rb = "NULL" \/ rbs[t].size < RING_BUFFER_MIN_SIZE))
        => /\ fault = "none"
           /\ rets[t] = (op.name = "is_empty")

\* The operations that move bytes.
Transfers == {"write", "read", "write_multi", "read_multi"}

\* C16, for the construction function src/ holds (ring_buffer_init of the
\* standalone core): a construction with null storage or with capacity 0 or
\* 1 returns false, and the read or write that follows a failed construction
\* on the same object does not succeed, whether the object had never been
\* constructed or had been constructed successfully before.
C16_FailedConstruction ==
    [][\A t \in Bound \cap {"ring_buffer"} :
         /\ (op'.name = "create" /\ (op'.ptr = "NULL" \/ op'.len < RING_BUFFER_MIN_SIZE))
               => rets'[t] = FALSE
         /\ (/\ op.name = "create"
             /\ (op.ptr = "NULL" \/ op.len < RING_BUFFER_MIN_SIZE)
             /\ op'.name \in Transfers
             /\ op'.rb = "valid")
               => rets'[t] = Nothing(op'.name)]_vars

Guarded(p) == pc[p] \in CoreLabels

\* C18: a context that stands inside the delegated call of a
\* critical-section operation, at any step between its first access to head,
\* tail or storage and its return, bulk copies included, has interrupt
\* delivery disabled, no interrupt handler runs while the main loop stands
\* there, and the step that returns from the operation leaves the interrupt
\* mask as the operation found it, disabled if it was disabled.
C18_CriticalSection ==
    [][/\ \A p \in Tasks : Guarded(p)' => primask' = 1
       /\ Guarded("main")' => pc'["isr"] = "idle"
       /\ \A p \in Tasks :
            (pc[p] = "i_restore" /\ pc'[p] = "idle") => primask' = loc[p].mask]_vars

\* C24: on a critical-section buffer written by the main loop and by an
\* interrupt handler and read by the main loop, the handler never runs while
\* the main loop stands inside the delegated call of an operation; the bytes
\* the reads have returned, in order, followed by the bytes the buffer
\* holds, are exactly the bytes the writes reported accepted, in the order
\* they were published, so that each is read once and none is lost; the
\* bytes of one context still to be read stand in the order it wrote them;
\* and never more than size - 1 bytes are held.
C24_CriticalSectionSafe ==
    (crb # NULL /\ crb.ops = "disable_irq") =>
        /\ pc["isr"] # "idle" => ~Guarded("main")
        /\ rlog \o Held(crb) = wlog
        /\ \A p \in Tasks \cap Producers : Own(p) = LastWritten(p, Len(Own(p)))
        /\ Len(wlog) - Len(rlog) <= crb.size - 1

(* ==================== properties of SpecMutex ========================= *)

\* Where a task stands while it holds the lock: inside the delegated call,
\* or at the release that follows it.
Holding == CoreLabels \cup {"m_unlock"}

BytesLeft(p, from) ==
    LET first_chunk == crb.size - from
    IN  IF (\E k \in loc[p].todo : k < first_chunk) /\ first_chunk < loc[p].n
        THEN Cardinality(loc[p].todo) + loc[p].n - first_chunk
        ELSE Cardinality(loc[p].todo)

\* The steps of its own the call of task p can still take, at most, counted
\* from where it stands and from its own arguments and locals.
StepsLeft(p) ==
    LET after == IF crb.ops = "disable_irq" THEN 1 ELSE 0
        core == [write |-> 5, read |-> 6,
                 write_multi |-> 4 + loc[p].len, read_multi |-> 4 + loc[p].len]
    IN  CASE pc[p] = "idle" -> 0
          [] pc[p] = "i_get_state" -> 2 + core[loc[p].op] + after
          [] pc[p] = "i_disable" -> 1 + core[loc[p].op] + after
          [] pc[p] = "i_restore" -> 1
          [] pc[p] \in {"w_next_head", "wm_avail_head", "rm_avail_head"} ->
               core[loc[p].op] + after
          [] pc[p] = "w_full_check" -> 4 + after
          [] pc[p] = "w_load_head" -> 3 + after
          [] pc[p] = "w_store_slot" -> 2 + after
          [] pc[p] = "w_store_head" -> 1 + after
          [] pc[p] = "r_compare_first" -> 6 + after
          [] pc[p] = "r_compare_second" -> 5 + after
          [] pc[p] = "r_load_tail" -> 4 + after
          [] pc[p] = "r_load_slot" -> 3 + after
          [] pc[p] = "r_reload_tail" -> 2 + after
          [] pc[p] = "r_store_tail" -> 1 + after
          [] pc[p] \in {"wm_avail_tail", "rm_avail_tail"} -> 3 + loc[p].len + after
          [] pc[p] \in {"wm_load_head", "rm_load_tail"} -> 2 + loc[p].n + after
          [] pc[p] = "wm_copy" -> 1 + BytesLeft(p, loc[p].head) + after
          [] pc[p] = "rm_copy" -> 1 + BytesLeft(p, loc[p].tail) + after
          [] pc[p] \in {"wm_store_head", "rm_store_tail"} -> 1 + after

\* Task p takes a step.
Moves(p) == pc'[p] # pc[p] \/ loc'[p] # loc[p]

\* The bulk call of task p has read both indices and found no room (for
\* write_multi) or no data (for read_multi).
FoundNone(p) ==
    \/ /\ pc[p] = "wm_avail_tail"
       /\ lockfree_free_space_internal([crb EXCEPT !.head = loc[p].head]) = 0
    \/ /\ pc[p] = "rm_avail_tail"
       /\ lockfree_available_internal([crb EXCEPT !.head = loc[p].head]) = 0

\* C17: on a lock-free and on a critical-section buffer a call never waits:
\* wherever a running context stands inside a call, its next step can be
\* taken, whatever the other context has done; every step it takes brings the
\* call nearer to its return by a count that starts no higher than a
\* constant plus the transfer length and that no step of the other context
\* changes; and a write_multi that finds the buffer full, or a read_multi
\* that finds it empty, returns with its next step, the buffer untouched.
C17_NeverWaits ==
    [][\A p \in Tasks :
         /\ (pc[p] # "idle" /\ Scheduled(p)) => ENABLED (CoreStep(p) \/ IrqStep(p))
         /\ StepsLeft(p)' <= 9 + loc'[p].len
         /\ (Moves(p) /\ pc[p] # "idle") => StepsLeft(p)' < StepsLeft(p)
         /\ ~Moves(p) => StepsLeft(p)' = StepsLeft(p)
         /\ (FoundNone(p) /\ Moves(p)) => (pc'[p] = AfterCore /\ crb' = crb)]_vars

\* A write_multi has found the buffer full while the other context is in the
\* middle of a bulk read.
C17_Witness ==
    \E p, q \in Tasks :
        /\ pc[p] = "wm_avail_tail"
        /\ FoundNone(p)
        /\ pc[q] = "rm_copy"

(* =================== properties of SpecRegistry ======================= *)

\* s is a leading part of t.
IsPrefix(s, t) == Len(s) <= Len(t) /\ SubSeq(t, 1, Len(s)) = s

\* C22: a registration returns true exactly when its type is at or above
\* the custom base, is not registered yet and the registry has a free entry,
\* and then appends that type with that table; a refused registration
\* changes nothing; so the registry only grows at its end, each entry once
\* accepted staying where it is with the table it came with, and it never
\* holds more than its capacity nor one type twice.
C22_Registry ==
    [][/\ op'.name = "register" =>
            LET ok == /\ op'.type >= RING_BUFFER_TYPE_CUSTOM_BASE
                      /\ op'.type \notin Registered(registry)
                      /\ Len(registry) < RegistryCapacity
            IN  /\ rets'["register"] = ok
                /\ registry' = IF ok
                               THEN Append(registry, [type |-> op'.type, ops |-> op'.ops])
                               ELSE registry
       /\ IsPrefix(registry, registry')
       /\ Len(registry') <= RegistryCapacity
       /\ \A i, j \in 1..Len(registry') :
            registry'[i].type = registry'[j].type => i = j]_vars

\* The registry is full, and a registration of one more custom type has
\* just been refused.
C22_Witness ==
    /\ Len(registry) = RegistryCapacity
    /\ op.name = "register"
    /\ op.type >= RING_BUFFER_TYPE_CUSTOM_BASE
    /\ op.type \notin Registered(registry)
    /\ rets["register"] = FALSE

(* ===================== properties of SpecRace ========================= *)

\* The labels of a write or write_multi that has found room.
Committed == {"w_load_head", "w_store_slot", "w_store_head",
              "wm_load_head", "wm_copy", "wm_store_head"}

\* C23: two producers on one lock-free buffer are not told of each other: a
\* write or write_multi that has found room goes on to store its bytes and
\* to publish the head it computed from the head it read, and reports
\* success for all of them, whatever the other producer has stored or
\* published meanwhile; no step of it fails.  (That bytes reported accepted
\* are lost this way is the state C23_Witness describes.)
C23_RaceUndetected ==
    [][\A p \in Tasks :
         (pc[p] \in Committed /\ Moves(p)) =>
            /\ pc'[p] \in Committed \cup {"idle"}
            /\ pc'[p] = "idle" =>
                 /\ pc[p] \in {"w_store_head", "wm_store_head"}
                 /\ crb'.head = loc[p].next
                 /\ wlog' = wlog \o (IF pc[p] = "w_store_head"
                                      THEN loc[p].data
                                      ELSE Take(loc[p].data, loc[p].n))]_vars

\* Both producers have returned from a call that reported one byte
\* accepted, the two bytes went to the same slot, and the buffer holds one
\* byte: the other was overwritten and will never be read.
C23_Witness ==
    /\ \A p \in Tasks : pc[p] = "idle"
    /\ Tasks = {"p1", "p2"}
    /\ Len(wlog) = 2
    /\ stream["p1"] = 1
    /\ stream["p2"] = 1
    /\ Occupancy(crb) = 1
    /\ \E i \in 1..2 : Held(crb) # <<wlog[i]>> /\ Held(crb) = <<wlog[3 - i]>>

(* ================== properties of Spec: indices ======================= *)

InRange(rb) == rb.head \in 0..(rb.size - 1) /\ rb.tail \in 0..(rb.size - 1)

\* C25: after construction and after every operation, head and tail of
\* every buffer lie in 0 .. size-1, also after a bulk transfer that ends
\* exactly at the end of storage and after one that wraps; no operation
\* changes size or the storage pointer.
C25_IndexRange ==
    [][\A t \in Bound :
         /\ InRange(rbs[t])
         /\ InRange(rbs'[t])
         /\ rbs'[t].size = rbs[t].size
         /\ rbs'[t].buffer = rbs[t].buffer]_vars

\* A bulk write of two bytes from head 1 of a buffer of size 3 has just
\* ended exactly at the end of storage: head is back at slot 0.
C25_Witness ==
    /\ op.name = "write_multi"
    /\ \A t \in Bound :
          /\ rets[t] = 2
          /\ rbs[t].size = 3
          /\ rbs[t].tail = 1
          /\ rbs[t].head = 0

(* ================== properties of Spec: bulk copy ===================== *)

\* C26: a bulk write that accepted n bytes from head h in a buffer of
\* capacity c puts them in slots h .. h+n-1 and makes head (h + n) mod c
\* when c - h >= n, and otherwise puts the first c - h in slots h .. c-1,
\* the other n - (c - h) in slots 0 .. n-(c-h)-1 and makes head n - (c - h),
\* touching no other slot; a bulk read copies from the same slots counted
\* from tail and moves tail the same way; the slots the copies of a bulk
\* transfer address all lie in 0 .. c-1.
C26_BulkCopyInside ==
    [][\A t \in Bound :
         LET c == rbs[t].size
             h == rbs[t].head
             tl == rbs[t].tail
             n == rets'[t]
         IN  /\ (op'.name = "write_multi" /\ n > 0) =>
                   /\ t \in Strategies =>
                        lockfree_write_multi_slots(rbs[t], op'.len) \subseteq 0..(c - 1)
                   /\ IF c - h >= n
                      THEN /\ \A i \in h..(h + n - 1) :
                                rbs'[t].mem[i] = op'.data[(i - h) + 1]
                           /\ \A i \in (0..(c - 1)) \ (h..(h + n - 1)) :
                                rbs'[t].mem[i] = rbs[t].mem[i]
                           /\ rbs'[t].head = (h + n) % c
                      ELSE /\ \A i \in h..(c - 1) :
                                rbs'[t].mem[i] = op'.data[(i - h) + 1]
                           /\ \A i \in 0..(n - (c - h) - 1) :
                                rbs'[t].mem[i] = op'.data[(c - h) + i + 1]
                           /\ \A i \in (n - (c - h))..(h - 1) :
                                rbs'[t].mem[i] = rbs[t].mem[i]
                           /\ rbs'[t].head = n - (c - h)
             /\ (op'.name = "read_multi" /\ n > 0) =>
                   /\ t \in Strategies =>
                        lockfree_read_multi_slots(rbs[t], op'.len) \subseteq 0..(c - 1)
                   /\ IF c - tl >= n
                      THEN /\ \A k \in 1..n : dsts'[t][k] = rbs[t].mem[tl + k - 1]
                           /\ rbs'[t].tail = (tl + n) % c
                      ELSE /\ \A k \in 1..(c - tl) : dsts'[t][k] = rbs[t].mem[tl + k - 1]
                           /\ \A k \in (c - tl + 1)..n :
                                dsts'[t][k] = rbs[t].mem[k - (c - tl) - 1]
                           /\ rbs'[t].tail = n - (c - tl)]_vars

\* A bulk read of two bytes from tail 2 of a buffer of size 3 has just
\* wrapped: it took the byte 0 from slot 2 and the byte 1 from slot 0 and
\* left tail at 1.
C26_Witness ==
    /\ op.name = "read_multi"
    /\ \A t \in Bound :
          /\ t \in Strategies
          /\ rets[t] = 2
          /\ rbs[t].size = 3
          /\ rbs[t].tail = 1
          /\ rbs[t].mem[2] = 0
          /\ rbs[t].mem[0] = 1
          /\ dsts[t][1] = 0
          /\ dsts[t][2] = 1

(* ================== properties of Spec: frame conditions =============== *)

\* The slots that hold an unread byte.
UnreadSlots(rb) == {(rb.tail + k) % rb.size : k \in 0..(Occupancy(rb) - 1)}

\* C27: write and write_multi never change tail nor a slot that holds an
\* unread byte; read, read_multi and the four status queries never change
\* head nor any slot; the four status queries change nothing at all.
C27_SingleWriter ==
    [][\A t \in Bound :
         /\ op'.name \in {"write", "write_multi"} =>
               /\ rbs'[t].tail = rbs[t].tail
               /\ \A i \in UnreadSlots(rbs[t]) : rbs'[t].mem[i] = rbs[t].mem[i]
         /\ op'.name \in {"read", "read_multi"} \cup Queries =>
               /\ rbs'[t].head = rbs[t].head
               /\ rbs'[t].mem = rbs[t].mem
         /\ op'.name \in Queries =>
               /\ rbs'[t] = rbs[t]
               /\ primask' = primask
               /\ mtx' = mtx
               /\ dsts' = dsts]_vars

\* A write of the byte 0 has just been accepted by a buffer of size 3 that
\* held the unread byte 1 in slot 2: the byte went to slot 0, slot 2 and
\* tail are as they were, and the buffer is now full.
C27_Witness ==
    /\ op.name = "write"
    /\ op.data = <<0>>
    /\ \A t \in Bound :
          /\ rets[t] = TRUE
          /\ rbs[t].size = 3
          /\ rbs[t].tail = 2
          /\ rbs[t].head = 1
          /\ rbs[t].mem[2] = 1
          /\ rbs[t].mem[0] = 0
          /\ accepted[t] = delivered[t] \o <<1, 0>>

\* C28: clear() only moves the read index: after it tail is the head of
\* before, and head, size, the storage pointer and every storage byte are
\* as they were.
C28_ClearMovesTail ==
    [][\A t \in Bound :
         op'.name = "clear" =>
            /\ rbs'[t].tail = rbs[t].head
            /\ rbs'[t].head = rbs[t].head
            /\ rbs'[t].size = rbs[t].size
            /\ rbs'[t].buffer = rbs[t].buffer
            /\ rbs'[t].mem = rbs[t].mem]_vars

(* ============ properties of SpecSPSC: publish after store ============= *)

\* The slots the call of task p stores into, from the load of head to the
\* store of the new head.
StoreSlots(p) ==
    CASE pc[p] \in {"w_store_slot", "w_store_head"} -> {loc[p].head}
      [] pc[p] \in {"wm_copy", "wm_store_head"} ->
           {ChunkSlot(loc[p].head, k, crb.size) : k \in 0..(loc[p].n - 1)}
      [] OTHER -> {}

\* The slots the call of task p copies out of, from the load of tail to the
\* store of the new tail.
LoadSlots(p) ==
    CASE pc[p] \in {"r_load_slot", "r_reload_tail", "r_store_tail"} -> {loc[p].tail}
      [] pc[p] \in {"rm_copy", "rm_store_tail"} ->
           {ChunkSlot(loc[p].tail, k, crb.size) : k \in 0..(loc[p].n - 1)}
      [] OTHER -> {}

\* Every data byte of the call of p is in its slot.
AllStored(p) ==
    IF loc[p].op = "write"
    THEN crb.mem[loc[p].head] = loc[p].data[1]
    ELSE \A k \in 0..(loc[p].n - 1) :
            crb.mem[ChunkSlot(loc[p].head, k, crb.size)] = loc[p].data[k + 1]

\* Every byte of the call of p has been copied out of its slot.
AllCopied(p) ==
    IF loc[p].op = "read"
    THEN loc[p].out = <<crb.mem[loc[p].tail]>>
    ELSE /\ loc[p].todo = {}
         /\ \A k \in 0..(loc[p].n - 1) :
               loc[p].out[k + 1] = crb.mem[ChunkSlot(loc[p].tail, k, crb.size)]

\* C29: a step that writes a new head is the last step of a write or
\* write_multi and finds every data byte of that call stored in its slot;
\* a step that writes a new tail is the last step of a read or read_multi
\* and finds every byte of that call copied out; and while the producer
\* and the consumer interleave, the slots a read in progress copies from
\* and the slots a write in progress copies into are disjoint.
C29_PublishAfterStore ==
    [][/\ crb'.head # crb.head =>
            \E p \in Tasks : /\ Moves(p)
                              /\ pc[p] \in {"w_store_head", "wm_store_head"}
                              /\ loc[p].op \in {"write", "write_multi"}
                              /\ AllStored(p)
                              /\ crb'.mem = crb.mem
       /\ crb'.tail # crb.tail =>
            \E p \in Tasks : /\ Moves(p)
                              /\ pc[p] \in {"r_store_tail", "rm_store_tail"}
                              /\ loc[p].op \in {"read", "read_multi"}
                              /\ AllCopied(p)
       /\ \A p, q \in Tasks : p # q => StoreSlots(p) \cap LoadSlots(q) = {}
       /\ \A p, q \in Tasks : p # q => StoreSlots(p)' \cap LoadSlots(q)' = {}]_vars

\* On a buffer of size 3 the producer's write_multi has stored its byte in
\* slot 0 and has not yet written head, while the consumer's read_multi has
\* copied the byte of slot 2 out and has not yet written tail.
C29_Witness ==
    /\ Tasks = {"p1", "c1"}
    /\ crb.size = 3
    /\ pc["p1"] = "wm_store_head"
    /\ pc["c1"] = "rm_store_tail"
    /\ StoreSlots("p1") = {0}
    /\ LoadSlots("c1") = {2}
    /\ crb.head = 0
    /\ crb.tail = 2
    /\ crb.mem[0] = loc["p1"].data[1]
    /\ loc["c1"].out[1] = crb.mem[2]

(* ============ properties of Spec: bulk and single transfers =========== *)

RECURSIVE WriteEach(_, _, _, _, _, _)
\* The buffer after write(data[1]), ..., write(data[n]) through table t, and
\* whether every one of them reported success.
WriteEach(t, rb, data, n, mask, mutex) ==
    IF n = 0 THEN [rb |-> rb, ok |-> TRUE]
    ELSE LET before == WriteEach(t, rb, data, n - 1, mask, mutex)
             r == ops_write(t, before.rb, data[n], mask, mutex)
         IN  [rb |-> r.rb, ok |-> before.ok /\ r.ret = TRUE /\ ~r.blocked]

RECURSIVE ReadEach(_, _, _, _, _)
\* The buffer after m calls of read through table t, the bytes they
\* delivered, and whether every one of them reported success.
ReadEach(t, rb, m, mask, mutex) ==
    IF m = 0 THEN [rb |-> rb, out |-> <<>>, ok |-> TRUE]
    ELSE LET before == ReadEach(t, rb, m - 1, mask, mutex)
             r == ops_read(t, before.rb, Ptr(DestBlank), mask, mutex)
         IN  [rb |-> r.rb,
              out |-> Append(before.out, r.data.bytes[1]),
              ok |-> before.ok /\ r.ret = TRUE /\ ~r.blocked]

\* C30: a write_multi that returned n leaves the buffer (head, tail, the
\* readable contents, and the storage) as n successive write calls of the
\* first n bytes leave it, all of them successful; a read_multi that
\* returned m delivers the bytes and leaves the buffer as m successive
\* successful read calls do.
C30_BulkEqualsSingles ==
    [][\A t \in Bound :
         /\ op'.name = "write_multi" =>
               LET w == WriteEach(t, rbs[t], op'.data, rets'[t], primask, mtx)
               IN  /\ w.ok
                   /\ w.rb.head = rbs'[t].head
                   /\ w.rb.tail = rbs'[t].tail
                   /\ Held(w.rb) = Held(rbs'[t])
                   /\ w.rb = rbs'[t]
         /\ op'.name = "read_multi" =>
               LET r == ReadEach(t, rbs[t], rets'[t], primask, mtx)
               IN  /\ r.ok
                   /\ r.out = Take(dsts'[t], rets'[t])
                   /\ r.rb.head = rbs'[t].head
                   /\ r.rb.tail = rbs'[t].tail
                   /\ Held(r.rb) = Held(rbs'[t])
                   /\ r.rb = rbs'[t]]_vars

\* A write_multi of the bytes 1, 0 into an empty buffer of size 3 whose
\* indices stood at 2 has just returned 2: the bytes are in slots 2 and 0
\* and head is 1, as after write(1) and write(0).
C30_Witness ==
    /\ op.name = "write_multi"
    /\ op.data = <<1, 0>>
    /\ \A t \in Bound :
          /\ rets[t] = 2
          /\ rbs[t].size = 3
          /\ rbs[t].tail = 2
          /\ rbs[t].head = 1
          /\ Held(rbs[t]) = <<1, 0>>
          /\ WriteEach(t, [rbs[t] EXCEPT !.head = 2], op.data, 2, primask, mtx).rb = rbs[t]

(* ============ properties of Spec: the two cores side by side ========== *)

\* The objects, sources and destinations a caller can pass: a null pointer
\* or a valid one.
Objects(t) == {NULL, rbs[t]}

SourcePtrs == {NULL} \cup {Ptr(data) : data \in Sources}

DestPtrs == {NULL, Ptr(DestBlank)}

\* The standalone function and the lock-free function agree on the five
\* transfers' and queries' results from the object rb.
SameTransfers(rb) ==
    /\ \A d \in Bytes : ring_buffer_write(rb, d) = lockfree_write(rb, d)
    /\ \A dest \in DestPtrs : ring_buffer_read(rb, dest) = lockfree_read(rb, dest)
    /\ \A src \in SourcePtrs : \A len \in Lens :
          (src = NULL \/ len <= Len(src.bytes)) =>
             ring_buffer_write_multi(rb, src, len) = lockfree_write_multi(rb, src, len)
    /\ \A dest \in DestPtrs : \A len \in Lens :
          ring_buffer_read_multi(rb, dest, len) = lockfree_read_multi(rb, dest, len)

SameQueries(rb) ==
    /\ ring_buffer_available(rb) = lockfree_available(rb)
    /\ ring_buffer_free_space(rb) = lockfree_free_space(rb)
    /\ ring_buffer_is_empty(rb) = lockfree_is_empty(rb)
    /\ ring_buffer_is_full(rb) = lockfree_is_full(rb)

\* C31: from every valid buffer state and for every argument, each of the
\* nine functions of the standalone core returns the value and leaves the
\* head, tail and storage that the lock-free function of the same name
\* returns and leaves.
C31_CoresAgree ==
    \A t \in Bound : \A rb \in Objects(t) :
        /\ SameTransfers(rb)
        /\ SameQueries(rb)
        /\ ring_buffer_clear(rb) = lockfree_clear(rb)

(* ================== properties of SpecMutexFair ======================= *)

\* C32: under a fair lock every call a task has started on the
\* mutex-guarded buffer returns: no task waits for the lock for ever, and
\* no holder keeps it for ever.
C32_Progress ==
    \A p \in MutexTasks :
        /\ (pc[p] # "idle") ~> (pc[p] = "idle")
        /\ (owner = p) ~> (owner # p)

\* One task waits at its acquire with a bulk read in hand while the other,
\* having filled the buffer, is about to release the lock.
C32_Witness ==
    \E p, q \in MutexTasks :
        /\ pc[p] = "m_lock"
        /\ loc[p].op = "read_multi"
        /\ owner = q
        /\ pc[q] = "m_unlock"
        /\ wlog # <<>>
        /\ Occupancy(crb) = crb.size - 1

(* ==================== properties of SpecDeinit ======================== *)

\* Every mutex-strategy operation on rb, whatever its arguments, returns
\* its nothing-happened result, leaves rb, the destination and the mutex as
\* they are, and does not wait for the mutex.
AllRefused(rb, mutex) ==
    /\ \A d \in Bytes :
          mutex_write(rb, d, mutex)
             = [rb |-> rb, ret |-> FALSE, mtx |-> mutex, blocked |-> FALSE]
    /\ \A dest \in {NULL, Ptr(DestBlank)} :
          /\ mutex_read(rb, dest, mutex)
                = [rb |-> rb, ret |-> FALSE, data |-> dest, mtx |-> mutex,
                   blocked |-> FALSE]
          /\ \A len \in Lens :
                mutex_read_multi(rb, dest, len, mutex)
                   = [rb |-> rb, ret |-> 0, data |-> dest, mtx |-> mutex,
                      blocked |-> FALSE]
    /\ \A src \in {NULL} \cup {Ptr(data) : data \in Sources} : \A len \in Lens :
          (src = NULL \/ len <= Len(src.bytes)) =>
             mutex_write_multi(rb, src, len, mutex)
                = [rb |-> rb, ret |-> 0, mtx |-> mutex, blocked |-> FALSE]
    /\ mutex_available(rb, mutex) = [ret |-> 0, mtx |-> mutex, blocked |-> FALSE]
    /\ mutex_free_space(rb, mutex) = [ret |-> 0, mtx |-> mutex, blocked |-> FALSE]
    /\ mutex_is_empty(rb, mutex) = [ret |-> TRUE, mtx |-> mutex, blocked |-> FALSE]
    /\ mutex_is_full(rb, mutex) = [ret |-> FALSE, mtx |-> mutex, blocked |-> FALSE]
    /\ mutex_clear(rb, mutex) = [rb |-> rb, mtx |-> mutex, blocked |-> FALSE]

\* C34: ring_buffer_mutex_deinit leaves the lock handle null and head, tail
\* and storage as they were; while the handle is null every mutex-strategy
\* operation returns false, 0, is_empty true, is_full false or, for clear,
\* nothing, without taking or giving the deleted mutex and without changing
\* the object, and the handle stays null; and a second
\* ring_buffer_mutex_deinit deletes nothing.
C34_AfterDeinit ==
    [][\A t \in Bound :
         /\ (op'.name = "deinit" /\ rbs'[t] # rbs[t]) =>
               /\ rbs'[t] = [rbs[t] EXCEPT !.lock = NULL]
               /\ mtx = "unlocked"
               /\ mtx' = "deleted"
         /\ rbs'[t].lock = NULL =>
               /\ AllRefused(rbs'[t], mtx')
               /\ ~ring_buffer_mutex_deinit_deletes(rbs'[t])
               /\ ring_buffer_mutex_deinit(rbs'[t], mtx') = [rb |-> rbs'[t], mtx |-> mtx']
         /\ rbs[t].lock = NULL =>
               /\ rbs'[t] = rbs[t]
               /\ mtx' = mtx
               /\ op'.name \in {"read", "read_multi"} => dsts'[t] = DestBlank
               /\ op'.name \in NineOps => rets'[t] = Nothing(op'.name)]_vars

\* The lock of a buffer of size 3 that holds two unread bytes has been
\* deleted, and a read_multi of two bytes called after that has returned 0
\* and delivered nothing.
C34_Witness ==
    /\ op.name = "read_multi"
    /\ op.len = 2
    /\ \A t \in Bound :
          /\ t = "mutex"
          /\ rbs[t].lock = NULL
          /\ mtx = "deleted"
          /\ rbs[t].size = 3
          /\ Occupancy(rbs[t]) = 2
          /\ rets[t] = 0
          /\ dsts[t] = DestBlank

(* ===================== properties of SpecWidth ======================== *)

\* The exact number of bytes held and of bytes free, from the indices.
ExactHeld(rb) == IF rb.head >= rb.tail THEN rb.head - rb.tail
                 ELSE rb.size - rb.tail + rb.head

ExactFree(rb) == rb.size - 1 - ExactHeld(rb)

\* The memcpy arguments and the new index of a bulk transfer of n bytes
\* from index from, in exact arithmetic.
ExactCopies(from, n, size) ==
    IF n = 0 THEN <<>>
    ELSE IF from + n <= size THEN << <<from, n>> >>
    ELSE << <<from, size - from>>, <<0, n - (size - from)>> >>

ExactIndex(from, n, size) == (from + n) % size

\* C33: for every size from 2 to 65535 and every head and tail below it,
\* the index computations of the lock-free functions give what exact
\* integer arithmetic gives: the next head of write, the counts of
\* available and free_space, which lie in 0 .. size-1, and for the bulk
\* transfers the count, the choice between one copy and two, the slots
\* copied and the new index, with every copy inside the storage.
C33_NoWrap ==
    /\ op.name = "write" =>
          rets["result"] = IF (op.head + 1) % op.size = op.tail
                           THEN [ret |-> FALSE, head |-> op.head]
                           ELSE [ret |-> TRUE, head |-> (op.head + 1) % op.size]
    /\ op.name = "available" =>
          rets["result"] = ExactHeld(op) /\ rets["result"] \in 0..(op.size - 1)
    /\ op.name = "free_space" =>
          rets["result"] = ExactFree(op) /\ rets["result"] \in 0..(op.size - 1)
    /\ op.name = "write_multi" =>
          LET n == Min(op.len, ExactFree(op))
          IN  /\ rets["result"] = [ret |-> n,
                                   copies |-> ExactCopies(op.head, n, op.size),
                                   head |-> ExactIndex(op.head, n, op.size)]
              /\ \A i \in DOMAIN rets["result"].copies :
                    rets["result"].copies[i][1] + rets["result"].copies[i][2] <= op.size
    /\ op.name = "read_multi" =>
          LET m == Min(op.len, ExactHeld(op))
          IN  /\ rets["result"] = [ret |-> m,
                                   copies |-> ExactCopies(op.tail, m, op.size),
                                   tail |-> ExactIndex(op.tail, m, op.size)]
              /\ \A i \in DOMAIN rets["result"].copies :
                    rets["result"].copies[i][1] + rets["result"].copies[i][2] <= op.size

====
